---- MODULE Spec2Model ----
(***************************************************************************)
(* A model of bcrypto's big-number engine (bn.js, the BigInt backend):     *)
(* the integer core, the number-theory layer and the reduction context.    *)
(*                                                                         *)
(* Five state machines share the module:                                   *)
(*   Spec      - BN objects held in program variables, the Red contexts    *)
(*               created so far, and the calls that tag, untag and do      *)
(*               ring arithmetic on them;                                  *)
(*   SpecRing  - the same machine restricted to toRed/fromRed and the      *)
(*               red* methods (values enter a ring only through toRed);    *)
(*   SpecRaw   - the raw methods called on tagged and untagged objects;    *)
(*   SpecArith - one call of a raw integer method on a receiver and an     *)
(*               operand drawn from bounded ranges;                        *)
(*   SpecTwos  - chains of toTwos/fromTwos calls on one value.             *)
(*                                                                         *)
(* A BigInt is modelled by a TLA+ integer; the operators below compute     *)
(* what the JavaScript BigInt operators compute.                           *)
(***************************************************************************)
EXTENDS Integers, Sequences, FiniteSets, TLC

VARIABLES
    a,      \* SpecArith/SpecTwos: the receiver's value before the first call
    b,      \* SpecArith/SpecTwos: the operand (a bignum, a small integer or a width)
    self,   \* SpecArith/SpecTwos: this.n of the receiver (the current value)
    op,     \* SpecArith/SpecTwos: name of the last method called ("init" before any)
    ret,    \* SpecArith/SpecTwos: the values returned by the last call (<<>> if it threw)
    err,    \* SpecArith/SpecTwos: "ok", or the message of the error thrown
    hist,   \* SpecTwos: <<method, value>> of every call made so far
    env,    \* the further arguments and the surroundings of a call (<<>> if none)
    bn,     \* Spec/SpecRing/SpecRaw: variable -> [n, red]; red = 0 is null, else a Red instance
    ctxs,   \* Spec/SpecRing/SpecRaw: the Red instances created so far, [name, m]
    primes, \* Spec/SpecRing/SpecRaw: the memoized prime catalogue, name -> entry (0 is null)
    res     \* Spec/SpecRing/SpecRaw: the last call: method, variables, error, number returned

arithVars == <<a, b, self, op, ret, err, hist, env>>
ringVars == <<bn, ctxs, primes, res>>
vars == <<arithVars, ringVars>>

----------------------------------------------------------------------------
(* Bounds of the model.                                                    *)

\* Receivers and operands of SpecArith range over -MaxNum..MaxNum.
MaxNum == 6
\* Widths handed to toTwos/fromTwos range over -1..MaxWidth.
MaxWidth == 4
\* Calls in one chain of SpecTwos.
MaxCalls == 3

NumRange == (-MaxNum)..MaxNum
WidthRange == (-1)..MaxWidth

----------------------------------------------------------------------------
(* JavaScript BigInt operators.                                            *)

\* abs(x)
abs(x) == IF x < 0 THEN -x ELSE x

\* x / y on BigInts: the quotient truncated toward zero.
JsDiv(x, y) ==
    LET q == abs(x) \div abs(y)
    IN IF (x < 0) # (y < 0) THEN -q ELSE q

\* x % y on BigInts: the remainder, with the sign of the dividend.
JsRem(x, y) == x - JsDiv(x, y) * y

\* x ** y on BigInts, y >= 0 (0n ** 0n is 1n).
JsPow(x, y) == IF y = 0 THEN 1 ELSE x ^ y

\* x >> y on BigInts: arithmetic shift, the floor of x / 2^y; a negative
\* count shifts the other way.
JsShr(x, y) == IF y >= 0 THEN x \div (2 ^ y) ELSE x * (2 ^ (-y))

\* x << y on BigInts.
JsShl(x, y) == IF y >= 0 THEN x * (2 ^ y) ELSE x \div (2 ^ (-y))

\* The bitwise operators on BigInts act on the infinite two's-complement
\* form: bit by bit, down to the sign extension (0 or -1).
RECURSIVE JsAnd(_, _)
JsAnd(x, y) ==
    IF x = 0 \/ y = 0 THEN 0
    ELSE IF x = -1 THEN y
    ELSE IF y = -1 THEN x
    ELSE 2 * JsAnd(x \div 2, y \div 2) + (IF x % 2 = 1 /\ y % 2 = 1 THEN 1 ELSE 0)

RECURSIVE JsOr(_, _)
JsOr(x, y) ==
    IF x = -1 \/ y = -1 THEN -1
    ELSE IF x = 0 THEN y
    ELSE IF y = 0 THEN x
    ELSE 2 * JsOr(x \div 2, y \div 2) + (IF x % 2 = 1 \/ y % 2 = 1 THEN 1 ELSE 0)

\* ~x
JsNot(x) == -x - 1

RECURSIVE JsXor(_, _)
JsXor(x, y) ==
    IF x = 0 THEN y
    ELSE IF y = 0 THEN x
    ELSE IF x = -1 THEN JsNot(y)
    ELSE IF y = -1 THEN JsNot(x)
    ELSE 2 * JsXor(x \div 2, y \div 2) + (IF (x % 2) # (y % 2) THEN 1 ELSE 0)

----------------------------------------------------------------------------
(* Results of calls: a value, or the error thrown.                         *)

Ok(v) == [err |-> "ok", val |-> v]
Throw(msg) == [err |-> msg, val |-> 0]

\* The messages of the helpers enforce/range/red/nonred/nonzero/assert.
DivideByZero == "Cannot divide by zero."
RangeMsg == "only works with positive numbers."
RedMsg == "only works with red numbers."
NonRedMsg == "only works with normal numbers."
AlreadyRed == "Already in reduction context."
NotInvertible == "Not invertible."
NotSquare == "X is not a square mod P."
\* (the source quotes num in backquotes)
MustBeOdd == "jacobi: num must be odd."
AssertionFailed == "Assertion failed."
\* Not an error of the code: the call never returns.
Diverges == "(does not terminate)"

----------------------------------------------------------------------------
(* The integer core: helper functions of bn.js.                            *)

quorem(x, y) ==
    LET q == JsDiv(x, y)
        r == x - (q * y)
    IN <<q, r>>

remrn(x, y) == JsRem(x, y)

divmod(x, y) ==
    LET q == JsDiv(x, y)
        r == x - (q * y)
    IN IF r < 0
       THEN IF y < 0 THEN <<q + 1, r - y>> ELSE <<q - 1, r + y>>
       ELSE <<q, r>>

div(x, y) ==
    LET q == JsDiv(x, y)
        r == x - (q * y)
    IN IF x >= 0 THEN q
       ELSE IF r < 0
            THEN IF y < 0 THEN q + 1 ELSE q - 1
            ELSE q

\* (mutant) the remainder left truncated.
mod_truncating(x, y) == JsRem(x, y)

mod(x, y) ==
    LET r == JsRem(x, y)
    IN IF r < 0
       THEN IF y < 0 THEN r - y ELSE r + y
       ELSE r

modrn(x, y) ==
    LET r == remrn(x, y)
    IN IF r < 0
       THEN IF y < 0 THEN r - y ELSE r + y
       ELSE r

\* (mutant) half of a negative divisor taken by shifting it as it is.
divRound_shiftNegative(x, y) ==
    LET half == JsShr(y, 1)
    IN IF (x < 0) # (y < 0)
       THEN JsDiv(x - half, y)
       ELSE JsDiv(x + half, y)

divRound(x, y) ==
    LET half == IF y < 0 THEN -(JsShr(-y, 1)) ELSE JsShr(y, 1)
    IN IF (x < 0) # (y < 0)
       THEN JsDiv(x - half, y)
       ELSE JsDiv(x + half, y)

mask(width) == JsShl(1, width) - 1

uand(x, y) ==
    LET num == JsAnd(abs(x), abs(y))
    IN IF x < 0 THEN -num ELSE num

uor(x, y) ==
    LET num == JsOr(abs(x), abs(y))
    IN IF x < 0 THEN -num ELSE num

uxor(x, y) ==
    LET num == JsXor(abs(x), abs(y))
    IN IF x < 0 THEN -num ELSE num

ushr(x, y) == IF x < 0 THEN -(JsShr(-x, y)) ELSE JsShr(x, y)

notn(x, width) ==
    LET x1 == IF x < 0 THEN -x ELSE x
        x2 == JsXor(x1, mask(width))
    IN IF x < 0 THEN -x2 ELSE x2

testn(x, bit) == JsAnd(x, JsShl(1, bit)) # 0

\* (mutant) the complement without the increment.
toTwos_onesComplement(x, width) == IF x < 0 THEN notn(-x, width) ELSE x

toTwos(x, width) == IF x < 0 THEN notn(-x, width) + 1 ELSE x

fromTwos(x, width) ==
    IF testn(x, width - 1) THEN -(notn(x, width) + 1) ELSE x

----------------------------------------------------------------------------
(* The number-theory layer.  A function that can throw yields Ok(value) or *)
(* Throw(message); one that can loop for ever yields Throw(Diverges) when  *)
(* it does.                                                                *)

\* zeroBits(x): the number of trailing zero bits of |x| (0 for x = 0).
RECURSIVE zeroBitsLoop(_, _)
zeroBitsLoop(x, i) ==
    IF x % 2 = 0 THEN zeroBitsLoop(x \div 2, i + 1) ELSE i

zeroBits(x) == IF x = 0 THEN 0 ELSE zeroBitsLoop(abs(x), 0)

\* The for (;;) loop of jacobi.
RECURSIVE jacobiLoop(_, _, _)
jacobiLoop(x, y, j) ==
    IF y = 1 THEN j
    ELSE IF x = 0 THEN 0
    ELSE LET x1 == JsRem(x, y)
         IN IF x1 = 0 THEN 0
            ELSE LET s == zeroBits(x1)
                     j1 == IF s % 2 = 1 /\ (y % 8) \in {3, 5} THEN -j ELSE j
                     c == JsShr(x1, s)
                     j2 == IF y % 4 = 3 /\ c % 4 = 3 THEN -j1 ELSE j1
                 IN jacobiLoop(y, c, j2)

\* (mutant) a negative x left unreduced.
jacobi_unreduced(x, y) ==
    IF y = 0 \/ y % 2 = 0 THEN Throw(MustBeOdd)
    ELSE LET j0 == IF y < 0 /\ x < 0 THEN -1 ELSE 1
             b0 == IF y < 0 THEN -y ELSE y
         IN Ok(jacobiLoop(abs(x), b0, j0))

jacobi(x, y) ==
    IF y = 0 \/ y % 2 = 0 THEN Throw(MustBeOdd)
    ELSE LET j0 == IF y < 0 /\ x < 0 THEN -1 ELSE 1
             b0 == IF y < 0 THEN -y ELSE y
             a0 == IF x < 0 THEN mod(x, b0) ELSE x
         IN Ok(jacobiLoop(a0, b0, j0))

\* The table of kronecker, indexed from 0 in the source.
kroneckerTable == <<0, 1, 0, -1, 0, -1, 0, 1>>

\* The for (;;) loop of kronecker.
RECURSIVE kroneckerLoop(_, _, _)
kroneckerLoop(x, y, s) ==
    IF x = 0 THEN (IF y = 1 THEN s ELSE 0)
    ELSE LET z == zeroBits(x)
             x1 == JsShr(x, z)
             s1 == IF z % 2 = 1 THEN s * kroneckerTable[(y % 8) + 1] ELSE s
             w == IF x1 < 0 THEN JsXor(-x1, 3) ELSE x1
             s2 == IF JsAnd(JsAnd(w, y), 2) # 0 THEN -s1 ELSE s1
             y1 == mod(y, x1)
         IN kroneckerLoop(y1, IF x1 < 0 THEN -x1 ELSE x1, s2)

\* (mutant) the sign of a negative x ignored in the reciprocity step.
kronecker_unsigned(x, y) ==
    IF y = 0 THEN (IF abs(x) = 1 THEN 1 ELSE 0)
    ELSE IF x % 2 = 0 /\ y % 2 = 0 THEN 0
    ELSE LET z == zeroBits(y)
             y1 == JsShr(y, z)
             s0 == IF z % 2 = 1 THEN kroneckerTable[(abs(x) % 8) + 1] ELSE 1
             s1 == IF y1 < 0 /\ x < 0 THEN -s0 ELSE s0
         IN kroneckerLoop(abs(x), IF y1 < 0 THEN -y1 ELSE y1, s1)

kronecker(x, y) ==
    IF y = 0 THEN (IF abs(x) = 1 THEN 1 ELSE 0)
    ELSE IF x % 2 = 0 /\ y % 2 = 0 THEN 0
    ELSE LET z == zeroBits(y)
             y1 == JsShr(y, z)
             s0 == IF z % 2 = 1 THEN kroneckerTable[(abs(x) % 8) + 1] ELSE 1
             s1 == IF y1 < 0 /\ x < 0 THEN -s0 ELSE s0
         IN kroneckerLoop(x, IF y1 < 0 THEN -y1 ELSE y1, s1)

RECURSIVE gcd(_, _)
gcd(x, y) == IF y = 0 THEN abs(x) ELSE gcd(abs(y), JsRem(abs(x), abs(y)))

\* The while loop of egcd, on <<or, r, os, s, ot, t>>.
RECURSIVE egcdLoop(_, _, _, _, _, _)
egcdLoop(or, r, os, s, ot, t) ==
    IF r = 0 THEN <<os, ot, or>>
    ELSE LET q == JsDiv(or, r)
         IN egcdLoop(r, or - q * r, s, os - q * s, t, ot - q * t)

\* (mutant) the coefficients of |x| and |y| returned for x and y.
egcd_unsigned(x, y) ==
    LET l == egcdLoop(abs(x), abs(y), 1, 0, 0, 1)
    IN <<l[1], l[2], l[3]>>

egcd(x, y) ==
    LET l == egcdLoop(abs(x), abs(y), 1, 0, 0, 1)
        neg == l[3] < 0
        or == IF neg THEN -l[3] ELSE l[3]
        os0 == IF neg THEN -l[1] ELSE l[1]
        ot0 == IF neg THEN -l[2] ELSE l[2]
    IN <<IF x < 0 THEN -os0 ELSE os0, IF y < 0 THEN -ot0 ELSE ot0, or>>

\* The while loop of invert, on <<t, nt, r, nr>>; yields <<t, r>>.
RECURSIVE invertLoop(_, _, _, _)
invertLoop(t, nt, r, nr) ==
    IF nr = 0 THEN <<t, r>>
    ELSE LET q == JsDiv(r, nr)
         IN invertLoop(nt, t - q * nt, nr, r - q * nr)

\* (mutant) a negative coefficient returned as it is.
invert_unadjusted(x, y) ==
    IF ~(y > 0) THEN Throw(AssertionFailed)
    ELSE IF y = 1 THEN Throw(NotInvertible)
    ELSE LET x1 == IF x < 0 \/ x >= y THEN mod(x, y) ELSE x
             l == invertLoop(0, 1, y, x1)
             r == IF l[2] < 0 THEN -l[2] ELSE l[2]
             t == IF l[2] < 0 THEN -l[1] ELSE l[1]
         IN IF r # 1 THEN Throw(NotInvertible) ELSE Ok(t)

invert(x, y) ==
    IF ~(y > 0) THEN Throw(AssertionFailed)
    ELSE IF y = 1 THEN Throw(NotInvertible)
    ELSE LET x1 == IF x < 0 \/ x >= y THEN mod(x, y) ELSE x
             l == invertLoop(0, 1, y, x1)
             r == IF l[2] < 0 THEN -l[2] ELSE l[2]
             t == IF l[2] < 0 THEN -l[1] ELSE l[1]
         IN IF r # 1 THEN Throw(NotInvertible)
            ELSE Ok(IF t < 0 THEN t + y ELSE t)

\* The while loop of powm.
RECURSIVE powmLoop(_, _, _, _)
powmLoop(r, x, y, m) ==
    IF y > 0
    THEN powmLoop(IF y % 2 = 1 THEN JsRem(r * x, m) ELSE r,
                  JsRem(JsPow(x, 2), m), JsShr(y, 1), m)
    ELSE r

powm(x, y, m) ==
    IF ~(m > 0) THEN Throw(AssertionFailed)
    ELSE IF y < 0
         THEN LET i == invert(x, m)
              IN IF i.err # "ok" THEN i ELSE Ok(powmLoop(1, i.val, -y, m))
         ELSE Ok(powmLoop(1, mod(x, m), y, m))

fermat(x, y) ==
    IF ~(y > 0) THEN Throw(AssertionFailed)
    ELSE IF y = 1 THEN Throw(NotInvertible)
    ELSE LET inv == powm(x, y - 2, y)
         IN IF inv.err # "ok" THEN inv
            ELSE IF inv.val = 0 THEN Throw(NotInvertible)
            ELSE inv

legendre(x, y) ==
    IF ~(y > 0) THEN Throw(RangeMsg)
    ELSE IF y % 2 = 0 THEN Throw("legendre: num must be odd.")
    ELSE LET s == powm(x, JsShr(y - 1, 1), y).val
         IN IF s = 0 THEN Ok(0)
            ELSE IF s = 1 THEN Ok(1)
            ELSE IF s = y - 1 THEN Ok(-1)
            ELSE Throw("Invalid prime.")

\* while (jacobi(n, p) !== -1) n += 1n, for odd p > 0: the n it stops at,
\* or 0 when it never stops (jacobi(n, p) depends on n mod p only, so a
\* search that passes p + 1 goes on for ever).
RECURSIVE nonResidueFrom(_, _)
nonResidueFrom(n, p) ==
    IF n > p + 1 THEN 0
    ELSE IF jacobi(n, p).val = -1 THEN n
    ELSE nonResidueFrom(n + 1, p)

\* while (t !== 1n) { t = (t ** 2n) % p; m += 1n }: the final m, or -1 when
\* the loop never ends (t ranges over [0, p): p squarings that miss 1 have
\* entered a cycle without it).
RECURSIVE orderLoop(_, _, _)
orderLoop(t, m, p) ==
    IF t = 1 THEN m
    ELSE IF m > p THEN -1
    ELSE orderLoop(JsRem(JsPow(t, 2), p), m + 1, p)

\* The outer for (;;) loop of sqrtm (Tonelli-Shanks); seen holds the loop
\* states passed, a repeated one meaning the loop never ends.
RECURSIVE sqrtmLoop(_, _, _, _, _, _)
sqrtmLoop(y, bb, g, k, p, seen) ==
    LET m == orderLoop(bb, 0, p)
    IN IF m = -1 THEN Throw(Diverges)
       ELSE IF m = 0 THEN Ok(y)
       ELSE IF m = k THEN Throw(AssertionFailed)
       ELSE IF <<y, bb, g, k>> \in seen THEN Throw(Diverges)
       ELSE LET t == powm(g, JsShl(1, k - m - 1), p).val
                g1 == JsRem(JsPow(t, 2), p)
            IN sqrtmLoop(JsRem(y * t, p), JsRem(bb * g1, p), g1, m, p,
                         seen \cup {<<y, bb, g, k>>})

\* (mutant) the exponent (p + 1) / 4 used for every modulus.
sqrtm_threeModFour(x, p) ==
    IF ~(p > 0) THEN Throw(AssertionFailed)
    ELSE LET j == jacobi(x, p)
         IN IF j.err # "ok" THEN j
            ELSE IF j.val = -1 THEN Throw(NotSquare)
            ELSE IF j.val = 0 THEN Ok(0)
            ELSE powm(IF x < 0 \/ x >= p THEN mod(x, p) ELSE x,
                      JsShr(p + 1, 2), p)

sqrtm(x, p) ==
    IF ~(p > 0) THEN Throw(AssertionFailed)
    ELSE LET j == jacobi(x, p)
         IN IF j.err # "ok" THEN j
            ELSE IF j.val = -1 THEN Throw(NotSquare)
            ELSE IF j.val = 0 THEN Ok(0)
            ELSE LET x1 == IF x < 0 \/ x >= p THEN mod(x, p) ELSE x
                 IN IF p % 4 = 3 THEN powm(x1, JsShr(p + 1, 2), p)
                    ELSE IF p % 8 = 5
                    THEN LET e == JsShr(p, 3)
                             t == JsShl(x1, 1)
                             c == powm(t, e, p).val
                             b1 == JsRem(JsPow(c, 2), p)
                             b2 == JsRem(b1 * t, p)
                             b3 == mod(b2 - 1, p)
                             b4 == JsRem(b3 * x1, p)
                         IN Ok(JsRem(b4 * c, p))
                    ELSE LET e == zeroBits(p - 1)
                             s == JsShr(p - 1, e)
                             n == nonResidueFrom(2, p)
                         IN IF n = 0 THEN Throw(Diverges)
                            ELSE sqrtmLoop(powm(x1, JsShr(s + 1, 1), p).val,
                                           powm(x1, s, p).val,
                                           powm(n, s, p).val, e, p, {})

\* (mutant) each root combined with the coefficient of its own modulus.
sqrtpq_swapped(x, p, q) ==
    IF ~(p > 0) \/ ~(q > 0) THEN Throw(AssertionFailed)
    ELSE CHOOSE o \in
             {IF sp.err # "ok" THEN sp
              ELSE IF sq.err # "ok" THEN sq
              ELSE Ok(mod(sp.val * m[1] * p + sq.val * m[2] * q, p * q)) :
              sp \in {sqrtm(x, p)}, sq \in {sqrtm(x, q)},
              m \in {egcd(p, q)}} : TRUE

\* sp, sq and [mp, mq] are each computed once.
sqrtpq(x, p, q) ==
    IF ~(p > 0) \/ ~(q > 0) THEN Throw(AssertionFailed)
    ELSE CHOOSE o \in
             {IF sp.err # "ok" THEN sp
              ELSE IF sq.err # "ok" THEN sq
              ELSE Ok(mod(sq.val * m[1] * p + sp.val * m[2] * q, p * q)) :
              sp \in {sqrtm(x, p)}, sq \in {sqrtm(x, q)},
              m \in {egcd(p, q)}} : TRUE

----------------------------------------------------------------------------
(* Argument checks.                                                        *)

SMI_MAX == 67108863

\* isSMI(num): a safe integer of at most 26 bits.
isSMI(num) == num >= -SMI_MAX /\ num <= SMI_MAX

\* nonzero(value): "ok", or the message of the RangeError it throws.
nonzero_asRange(value) == IF value THEN "ok" ELSE RangeMsg
nonzero(value) == IF value THEN "ok" ELSE DivideByZero

\* range(value, name)
range(value) == IF value THEN "ok" ELSE RangeMsg

\* enforce(value, name, type)
enforce(value) == IF value THEN "ok" ELSE "must be a(n)"

\* The first check that throws decides the error of a call.
FirstError(checks) ==
    IF \E i \in 1..Len(checks) : checks[i] # "ok"
    THEN checks[CHOOSE i \in 1..Len(checks) :
                    /\ checks[i] # "ok"
                    /\ \A j \in 1..(i - 1) : checks[j] = "ok"]
    ELSE "ok"

----------------------------------------------------------------------------
(* Primality testing.  The injected RNG is the surroundings of the test:   *)
(* each number it returns is an input of the step that consumes it.        *)

\* countWords(x, w): the number of w-bit words of |x|.
RECURSIVE countBits(_)
countBits(x) == IF x > 0 THEN 1 + countBits(x \div 2) ELSE 0

countWords(x, w) == IF x = 0 THEN 0 ELSE (countBits(abs(x)) + (w - 1)) \div w

bitLength(x) == countWords(x, 1)

\* The for (;;) loop of sqrt.
RECURSIVE sqrtLoop(_, _)
sqrtLoop(x, r) ==
    LET z == JsShr(JsDiv(x, r) + r, 1)
    IN IF z >= r THEN r ELSE sqrtLoop(x, z)

\* sqrt(x), x >= 0
sqrt(x) ==
    IF x <= 1 THEN x ELSE sqrtLoop(x, JsShl(1, (bitLength(x) \div 2) + 1))

isSquare(n) == IF n < 0 THEN FALSE ELSE JsPow(sqrt(n), 2) = n

\* random(rng, min, max) when randomBits(rng, bits) yields num: the number
\* returned, or "again" when the loop asks the RNG for another (num is
\* below 2^bits, bits the bit length of max - min).
randomBitsRange(min, max) == 0..(2 ^ bitLength(abs(max - min)) - 1)

\* (mutant) the maximum is inclusive.
random_inclusive(num, min, max) ==
    IF min > max THEN Throw("Minimum cannot be greater than maximum.")
    ELSE IF bitLength(abs(max - min)) = 0 THEN Ok(min)
    ELSE IF num > abs(max - min) THEN Throw("again")
    ELSE Ok(num + min)

random(num, min, max) ==
    IF min > max THEN Throw("Minimum cannot be greater than maximum.")
    ELSE IF bitLength(abs(max - min)) = 0 THEN Ok(min)
    ELSE IF num >= abs(max - min) THEN Throw("again")
    ELSE Ok(num + min)

\* A part of a function ends with a return, or goes on with a value.
Returns(v) == [err |-> "ok", st |-> "returned", val |-> v]
GoesOn(v) == [err |-> "ok", st |-> "goes on", val |-> v]
Throws(msg) == [err |-> msg, st |-> "threw", val |-> 0]

\* isPrimeMR up to its loop.
isPrimeMR_entry(n, reps) ==
    LET e == FirstError(<<enforce(reps >= 0), enforce(reps > 0)>>)
    IN IF e # "ok" THEN Throws(e)
       ELSE IF n < 7 THEN Returns(n \in {2, 3, 5})
       ELSE IF n % 2 = 0 THEN Returns(FALSE)
       ELSE GoesOn(0)

\* for (let j = 1; j < k; j++): TRUE for continue next, FALSE for
\* return false.
RECURSIVE isPrimeMR_squarings(_, _, _, _)
isPrimeMR_squarings(y, j, k, n) ==
    IF ~(j < k) THEN FALSE
    ELSE LET y1 == JsRem(JsPow(y, 2), n)
         IN IF y1 = n - 1 THEN TRUE
            ELSE IF y1 = 1 THEN FALSE
            ELSE isPrimeMR_squarings(y1, j + 1, k, n)

\* One pass of the loop of isPrimeMR with the base x: TRUE when the loop
\* goes on, FALSE when isPrimeMR returns false.
isPrimeMR_round(n, x) ==
    LET nm1 == n - 1
        k == zeroBits(nm1)
        q == JsShr(nm1, k)
        y == powm(x, q, n).val
    IN IF y = 1 \/ y = nm1 THEN TRUE
       ELSE isPrimeMR_squarings(y, 1, k, n)

\* (mutant) the search is not bounded by limit.
RECURSIVE lucasSearch_unbounded(_, _, _)
lucasSearch_unbounded(n, limit, p) ==
    IF p > 10000 THEN Throws("Cannot find (D/n) = -1")
    ELSE LET j == jacobi(p * p - 4, n).val
         IN IF j = -1 THEN GoesOn(p)
            ELSE IF j = 0 THEN Returns(n = p + 2)
            ELSE IF p = 40 /\ isSquare(n) THEN Returns(FALSE)
            ELSE lucasSearch_unbounded(n, limit, p + 1)

\* The search of isPrimeLucas for p with jacobi(p*p - 4, n) = -1; it goes
\* on with p.
RECURSIVE lucasSearch(_, _, _)
lucasSearch(n, limit, p) ==
    IF p > 10000 THEN Throws("Cannot find (D/n) = -1")
    ELSE IF limit > 0 /\ p > limit THEN Returns(FALSE)
    ELSE LET j == jacobi(p * p - 4, n).val
         IN IF j = -1 THEN GoesOn(p)
            ELSE IF j = 0 THEN Returns(n = p + 2)
            ELSE IF p = 40 /\ isSquare(n) THEN Returns(FALSE)
            ELSE lucasSearch(n, limit, p + 1)

\* for (let i = BigInt(bitLength(s)); i >= 0n; i--), on <<x, y>>.
RECURSIVE lucasLoop(_, _, _, _, _, _)
lucasLoop(x, y, i, s, n, p) ==
    IF i < 0 THEN <<x, y>>
    ELSE IF JsAnd(s, JsShl(1, i)) # 0
    THEN lucasLoop(mod(x * y + n - p, n), mod(JsPow(y, 2) + (n - 2), n),
                   i - 1, s, n, p)
    ELSE lucasLoop(mod(JsPow(x, 2) + (n - 2), n), mod(y * x + n - p, n),
                   i - 1, s, n, p)

\* for (let t = 0; t < r - 1; t++), and the return false behind it.
RECURSIVE lucasTail(_, _, _, _)
lucasTail(x, t, r, n) ==
    IF ~(t < r - 1) THEN FALSE
    ELSE IF x = 0 THEN TRUE
    ELSE IF x = 2 THEN FALSE
    ELSE lucasTail(mod(JsPow(x, 2) - 2, n), t + 1, r, n)

\* (mutant) the test for x = 2 or x = n - 2 after the loop left out.
lucasCheck_strongOnly(n, p, l) == lucasTail(l[1], 0, zeroBits(n + 1), n)

\* isPrimeLucas behind its loop, which ended with <<x, y>> = l.
lucasCheck(n, p, l) ==
    LET a1 == l[1] * p
        b1 == JsShl(l[2], 1)
    IN IF /\ l[1] = 2 \/ l[1] = n - 2
          /\ JsRem(IF a1 < b1 THEN b1 - a1 ELSE a1 - b1, n) = 0
       THEN TRUE
       ELSE lucasTail(l[1], 0, zeroBits(n + 1), n)

\* isPrimeLucas from the p found on.
lucasFrom(n, p) ==
    LET r == zeroBits(n + 1)
        s == JsShr(n + 1, r)
    IN CHOOSE o \in {lucasCheck(n, p, l) :
                     l \in {lucasLoop(2, p, bitLength(s), s, n, p)}} : TRUE

isPrimeLucas(n, limit) ==
    IF enforce(limit >= 0) # "ok" THEN Throw(enforce(limit >= 0))
    ELSE IF n <= 1 THEN Ok(FALSE)
    ELSE IF n % 2 = 0 THEN Ok(n = 2)
    ELSE CHOOSE o \in
             {IF f.err # "ok" THEN Throw(f.err)
              ELSE IF f.st = "returned" THEN Ok(f.val)
              ELSE Ok(lucasFrom(n, f.val)) :
              f \in {lucasSearch(n, limit, 3)}} : TRUE

----------------------------------------------------------------------------
(* Conversion to and from bytes.  A Buffer is the sequence of its bytes.   *)
(* Inside fromBuffer the BigInt being assembled is held as the sequence of *)
(* its bytes, least significant first, so that the 64-bit words and the    *)
(* bytes read from outside the buffer keep their full width.               *)

LengthMsg == "Byte array longer than desired length."

\* x.toString(16), x >= 0: the hexadecimal digits, most significant first.
RECURSIVE toString16(_)
toString16(x) ==
    IF x < 16 THEN <<x>> ELSE Append(toString16(x \div 16), x % 16)

\* str.padStart(len, '00')
padStart(str, len) ==
    IF Len(str) >= len THEN str
    ELSE [i \in 1..(len - Len(str)) |-> 0] \o str

\* Buffer.from(hex, 'hex')
fromHex(hex) ==
    [i \in 1..(Len(hex) \div 2) |-> 16 * hex[2 * i - 1] + hex[2 * i]]

\* reverse(data)
reverse(data) == [i \in 1..Len(data) |-> data[Len(data) + 1 - i]]

\* (mutant) the bytes of a little-endian buffer left in big-endian order.
toBuffer_bigEndianOnly(n, endian, length) ==
    LET e == FirstError(<<enforce(endian \in {"be", "le"}),
                          enforce(length >= 0)>>)
        str0 == toString16(abs(n))
        str == IF Len(str0) % 2 = 1 THEN <<0>> \o str0 ELSE str0
        bytes == Len(str) \div 2
        size == IF length # 0 THEN length ELSE IF bytes > 1 THEN bytes ELSE 1
    IN IF e # "ok" THEN Throw(e)
       ELSE IF bytes > size THEN Throw(LengthMsg)
       ELSE Ok(fromHex(padStart(str, size * 2)))

toBuffer(n, endian, length) ==
    LET e == FirstError(<<enforce(endian \in {"be", "le"}),
                          enforce(length >= 0)>>)
        str0 == toString16(abs(n))
        str == IF Len(str0) % 2 = 1 THEN <<0>> \o str0 ELSE str0
        bytes == Len(str) \div 2
        size == IF length # 0 THEN length ELSE IF bytes > 1 THEN bytes ELSE 1
        out == fromHex(padStart(str, size * 2))
    IN IF e # "ok" THEN Throw(e)
       ELSE IF bytes > size THEN Throw(LengthMsg)
       ELSE Ok(IF endian = "le" THEN reverse(out) ELSE out)

\* n <<= 8n * k, on the bytes of n.
BigShl(n, k) == [i \in 1..k |-> 0] \o n

\* n |= v, the low Len(v) bytes of n being zero.
BigOr(n, v) == v \o SubSeq(n, Len(v) + 1, Len(n))

\* The integer a sequence of bytes stands for.
RECURSIVE BigValue(_)
BigValue(n) == IF n = <<>> THEN 0 ELSE n[1] + 256 * BigValue(Tail(n))

\* arr[i] of the BigUint64Array laid over data (i from 1), as the machine
\* of endianness ENDIAN reads it.
wordAt(data, i, ENDIAN) ==
    LET w == SubSeq(data, 8 * (i - 1) + 1, 8 * i)
    IN IF ENDIAN = "be" THEN reverse(w) ELSE w

\* for (i = from; i <= to; i++) { n <<= 64n; n |= arr[i] }
RECURSIVE wordsUp(_, _, _, _)
wordsUp(n, data, i, to) ==
    IF i > to THEN n
    ELSE wordsUp(BigOr(BigShl(n, 8), wordAt(data, i, "be")), data, i + 1, to)

\* for (i = from; i <= to; i++) { n <<= 8n; n |= data[i] }
RECURSIVE bytesUp(_, _, _, _)
bytesUp(n, data, i, to) ==
    IF i > to THEN n
    ELSE bytesUp(BigOr(BigShl(n, 1), <<data[i]>>), data, i + 1, to)

\* for (i = from; i >= to; i--) { n <<= 8n; n |= data[i] }
RECURSIVE bytesDown(_, _, _, _)
bytesDown(n, data, i, to) ==
    IF i < to THEN n
    ELSE bytesDown(BigOr(BigShl(n, 1), <<data[i]>>), data, i - 1, to)

\* for (i = from; i >= to; i--) { n <<= 64n; n |= arr[i] }
RECURSIVE wordsDown(_, _, _, _)
wordsDown(n, data, i, to) ==
    IF i < to THEN n
    ELSE wordsDown(BigOr(BigShl(n, 8), wordAt(data, i, "le")), data, i - 1, to)

\* fromBuffer(data, endian) on a machine of endianness ENDIAN, data lying
\* at byteOffset = offset (mod 8) of its ArrayBuffer, behind the bytes
\* before.  The copy made to reverse the data is a slice of the buffer
\* pool, which is aligned to 8 bytes.
fromBuffer(data, endian, ENDIAN, offset, before) ==
    LET e == FirstError(<<enforce(endian \in {"be", "le"})>>)
        data1 == IF endian # ENDIAN THEN reverse(data) ELSE data
        unaligned == IF endian # ENDIAN THEN 0 ELSE offset
        data2 == IF unaligned # 0
                 THEN SubSeq(before, Len(before) - unaligned + 1, Len(before))
                      \o data1
                 ELSE data1
        words == Len(data2) \div 8
        left == Len(data2) % 8
        start == Len(data2) - left
        n == IF ENDIAN = "be"
             THEN LET n1 == bytesUp(wordsUp(<<>>, data2, 1, words),
                                    data2, start + 1, Len(data2))
                  IN IF unaligned # 0
                     THEN SubSeq(n1, 1, Len(data2) - unaligned)
                     ELSE n1
             ELSE LET n1 == wordsDown(bytesDown(<<>>, data2, Len(data2),
                                                start + 1),
                                      data2, words, 1)
                  IN IF unaligned # 0
                     THEN SubSeq(n1, unaligned + 1, Len(n1))
                     ELSE n1
    IN IF e # "ok" THEN Throw(e) ELSE Ok(BigValue(n))

----------------------------------------------------------------------------
(* Methods of BN on an untagged receiver whose this.n is n.  A call yields *)
(* [err, self, ret]: the error thrown ("ok" if none), this.n afterwards,   *)
(* and the values returned.                                                *)

\* The method threw before it assigned anything.
Threw(n, msg) == [err |-> msg, self |-> n, ret |-> <<>>]
\* An in-place method: this.n = v; return this.
Assigned(v) == [err |-> "ok", self |-> v, ret |-> <<v>>]
\* A method that returns new values and leaves the receiver alone.
Returned(n, vs) == [err |-> "ok", self |-> n, ret |-> vs]
\* this.clone().<in-place method>: the clone is mutated and returned.
OnClone(n, r) == [err |-> r.err, self |-> n, ret |-> r.ret]

BN_iadd(n, num) == Assigned(n + num)

BN_add(n, num) == OnClone(n, BN_iadd(n, num))

BN_isub(n, num) == Assigned(n - num)

BN_imul(n, num) == Assigned(n * num)

BN_quorem(n, num) ==
    LET e == FirstError(<<nonzero(num # 0)>>)
    IN IF e # "ok" THEN Threw(n, e) ELSE Returned(n, quorem(n, num))

BN_iquo(n, num) ==
    LET e == FirstError(<<nonzero(num # 0)>>)
    IN IF e # "ok" THEN Threw(n, e) ELSE Assigned(JsDiv(n, num))

BN_iquon(n, num) ==
    LET e == FirstError(<<enforce(isSMI(num)), nonzero(num # 0)>>)
    IN IF e # "ok" THEN Threw(n, e) ELSE Assigned(JsDiv(n, num))

BN_quo(n, num) == OnClone(n, BN_iquo(n, num))

BN_quon(n, num) == OnClone(n, BN_iquon(n, num))

BN_irem(n, num) ==
    LET e == FirstError(<<nonzero(num # 0)>>)
    IN IF e # "ok" THEN Threw(n, e) ELSE Assigned(JsRem(n, num))

BN_iremn(n, num) ==
    LET e == FirstError(<<enforce(isSMI(num)), nonzero(num # 0)>>)
    IN IF e # "ok" THEN Threw(n, e) ELSE Assigned(JsRem(n, num))

BN_rem(n, num) == OnClone(n, BN_irem(n, num))

BN_remn(n, num) == OnClone(n, BN_iremn(n, num))

BN_remrn(n, num) ==
    LET e == FirstError(<<enforce(isSMI(num)), nonzero(num # 0)>>)
    IN IF e # "ok" THEN Threw(n, e) ELSE Returned(n, <<remrn(n, num)>>)

BN_divmod(n, num) ==
    LET e == FirstError(<<nonzero(num # 0)>>)
    IN IF e # "ok" THEN Threw(n, e) ELSE Returned(n, divmod(n, num))

BN_idiv(n, num) ==
    LET e == FirstError(<<nonzero(num # 0)>>)
    IN IF e # "ok" THEN Threw(n, e) ELSE Assigned(div(n, num))

BN_idivn(n, num) ==
    LET e == FirstError(<<enforce(isSMI(num)), nonzero(num # 0)>>)
    IN IF e # "ok" THEN Threw(n, e) ELSE Assigned(div(n, num))

BN_div(n, num) == OnClone(n, BN_idiv(n, num))

BN_divn(n, num) == OnClone(n, BN_idivn(n, num))

BN_imod(n, num) ==
    LET e == FirstError(<<nonzero(num # 0)>>)
    IN IF e # "ok" THEN Threw(n, e) ELSE Assigned(mod(n, num))

BN_imodn(n, num) ==
    LET e == FirstError(<<enforce(isSMI(num)), nonzero(num # 0)>>)
    IN IF e # "ok" THEN Threw(n, e) ELSE Assigned(mod(n, num))

BN_mod(n, num) == OnClone(n, BN_imod(n, num))

BN_modn(n, num) == OnClone(n, BN_imodn(n, num))

BN_modrn(n, num) ==
    LET e == FirstError(<<enforce(isSMI(num)), nonzero(num # 0)>>)
    IN IF e # "ok" THEN Threw(n, e) ELSE Returned(n, <<modrn(n, num)>>)

BN_divRound(n, num) ==
    LET e == FirstError(<<nonzero(num # 0)>>)
    IN IF e # "ok" THEN Threw(n, e) ELSE Returned(n, <<divRound(n, num)>>)

\* (mutant) a negative exponent refused.
BN_ipow_refusing(n, num) ==
    LET e == FirstError(<<range(num >= 0)>>)
    IN IF e # "ok" THEN Threw(n, e) ELSE Assigned(JsPow(n, num))

BN_ipow(n, num) == Assigned(JsPow(n, abs(num)))

BN_ipown(n, num) ==
    LET e == FirstError(<<enforce(isSMI(num))>>)
    IN IF e # "ok" THEN Threw(n, e) ELSE Assigned(JsPow(n, abs(num)))

BN_pow(n, num) == OnClone(n, BN_ipow(n, num))

BN_pown(n, num) == OnClone(n, BN_ipown(n, num))

BN_ixor(n, num) == Assigned(JsXor(n, num))

BN_iuand(n, num) == Assigned(uand(n, num))

BN_uand(n, num) == OnClone(n, BN_iuand(n, num))

BN_iuor(n, num) == Assigned(uor(n, num))

BN_uor(n, num) == OnClone(n, BN_iuor(n, num))

BN_iuxor(n, num) == Assigned(uxor(n, num))

BN_uxor(n, num) == OnClone(n, BN_ixor(n, num))

BN_iushr(n, num) ==
    LET e == FirstError(<<range(num >= 0)>>)
    IN IF e # "ok" THEN Threw(n, e) ELSE Assigned(ushr(n, num))

BN_ushr(n, num) == OnClone(n, BN_iushr(n, num))

BN_toTwos(n, width) == Returned(n, <<toTwos(n, width)>>)

BN_fromTwos(n, width) ==
    LET e == FirstError(<<range(width > 0)>>)
    IN IF e # "ok" THEN Threw(n, e) ELSE Returned(n, <<fromTwos(n, width)>>)

BN_iinvert(n, num) ==
    LET e == FirstError(<<range(num >= 1)>>)
        r == invert(n, num)
    IN IF e # "ok" THEN Threw(n, e)
       ELSE IF r.err # "ok" THEN Threw(n, r.err)
       ELSE Assigned(r.val)

BN_ifermat(n, num) ==
    LET e == FirstError(<<range(num >= 1)>>)
        r == fermat(n, num)
    IN IF e # "ok" THEN Threw(n, e)
       ELSE IF r.err # "ok" THEN Threw(n, r.err)
       ELSE Assigned(r.val)

BN_legendre(n, num) ==
    LET r == legendre(n, num)
    IN IF r.err # "ok" THEN Threw(n, r.err) ELSE Returned(n, <<r.val>>)

BN_jacobi(n, num) ==
    LET r == jacobi(n, num)
    IN IF r.err # "ok" THEN Threw(n, r.err) ELSE Returned(n, <<r.val>>)

BN_kronecker(n, num) == Returned(n, <<kronecker(n, num)>>)

BN_igcd(n, num) == Assigned(gcd(n, num))

BN_egcd(n, p) == Returned(n, egcd(n, p))

----------------------------------------------------------------------------
(* The object machine (Spec, SpecRing, SpecRaw): state.                    *)

\* Program variables holding BN objects: x, the receiver of the ring and
\* raw methods, and y, their operand.  Either is assigned, tagged and
\* untagged; the object a method returns is bound to either.
Receivers == {1}
Operands == {2}
Slots == Receivers \cup Operands

\* Values a variable is given, and the integers the machine keeps track of.
MaxVal == 2
Inputs == (-1)..MaxVal
Vals == (-MaxVal)..MaxVal

\* Moduli handed to BN.red: 0, which is refused, 1, the smallest, and
\* MaxMod; and the number of Red instances created.
MaxMod == 3
ModInputs == {0, 1, MaxMod}
MaxCtx == 2

\* Shift counts and exponents handed to the ring methods.
MaxExp == 1
ExpInputs == (-1)..MaxExp

\* The names of the prime catalogue (const primes).
PrimeNames == {"p192", "p224", "p521", "k256", "p25519", "p448"}

\* Names handed to BN.red: one of the catalogue, one unknown to it.
NameInputs == {"p25519", "p1"}

\* The last call: the method, the variables of receiver and operand
\* (0: none), the error thrown ("ok": none) and a number returned.
NoCall == [op |-> "init", s |-> 0, t |-> 0, err |-> "ok", val |-> <<>>]

\* new BN() in every variable, no Red created, the catalogue not populated.
RingInit ==
    /\ bn = [s \in Slots |-> [n |-> 0, red |-> 0]]
    /\ ctxs = <<>>
    /\ primes = [name \in PrimeNames |-> 0]
    /\ res = NoCall

----------------------------------------------------------------------------
(* The reduction context.  A BN object is [n, red]; red = 0 is null, and   *)
(* otherwise names a Red instance: ctxs[red] = [name, m].  A Red built     *)
(* from a catalogue name holds a prime of 192 to 521 bits, far above every *)
(* integer of the model: its m is not represented (m = 0), and a method    *)
(* is not followed into arithmetic modulo such a prime (Followed).         *)

\* this.m of a Red instance.
M(c) == ctxs[c].m

\* The Red instance holds a modulus the model represents.
Small(c) == ctxs[c].name = ""

\* red(value, name)
red(value) == IF value THEN "ok" ELSE RedMsg

\* nonred(value, name)
nonred(value) == IF value THEN "ok" ELSE NonRedMsg

Red_verify1(x) == FirstError(<<range(x.n >= 0), red(x.red # 0)>>)

\* (mutant) contexts compared by modulus instead of by instance.
Red_verify2_byModulus(x, y) ==
    FirstError(<<range(x.n >= 0 /\ y.n >= 0),
                 red(x.red # 0 /\ y.red # 0 /\ ctxs[x.red] = ctxs[y.red])>>)

Red_verify2(x, y) ==
    FirstError(<<range(x.n >= 0 /\ y.n >= 0),
                 red(x.red # 0 /\ x.red = y.red)>>)

\* Methods of Red, with m = this.m: the new a.n, or the error.
Checked(e, r) == IF e # "ok" THEN Throw(e) ELSE r

Red_ineg(m, x) == Checked(Red_verify1(x), Ok(IF x.n # 0 THEN m - x.n ELSE x.n))

\* (mutant) the sum is not corrected by m.
Red_iadd_uncorrected(m, x, y) ==
    Checked(Red_verify2(x, y), Ok(x.n + y.n))

Red_iadd(m, x, y) ==
    Checked(Red_verify2(x, y),
            LET v == x.n + y.n IN Ok(IF v >= m THEN v - m ELSE v))

Red_isub(m, x, y) ==
    Checked(Red_verify2(x, y),
            LET v == x.n - y.n IN Ok(IF v < 0 THEN v + m ELSE v))

Red_ishln(m, x, num) == Checked(Red_verify1(x), Ok(JsRem(JsShl(x.n, num), m)))

Red_imul(m, x, y) == Checked(Red_verify2(x, y), Ok(JsRem(x.n * y.n, m)))

Red_isqr(m, x) == Checked(Red_verify1(x), Ok(JsRem(JsPow(x.n, 2), m)))

Red_isqrt(m, x) == Checked(Red_verify1(x), sqrtm(x.n, m))

Red_iinvert(m, x) == Checked(Red_verify1(x), invert(x.n, m))

Red_ifermat(m, x) == Checked(Red_verify1(x), fermat(x.n, m))

Red_legendre(m, x) == Checked(Red_verify1(x), legendre(x.n, m))

Red_jacobi(m, x) == Checked(Red_verify1(x), jacobi(x.n, m))

Red_kronecker(m, x) == Checked(Red_verify1(x), Ok(kronecker(x.n, m)))

Red_ipow(m, x, num) == Checked(Red_verify1(x), powm(x.n, num.n, m))

Red_ipown(m, x, num) == Checked(Red_verify1(x), powm(x.n, num, m))

\* convertTo(num): b.n = mod(num.n, this.m).  Below a catalogue prime a
\* non-negative integer of the model is its own residue.
Red_convertTo(c, x) == IF Small(c) THEN mod(x.n, M(c)) ELSE x.n

----------------------------------------------------------------------------
(* Methods of BN that deal with the tag.  A call on the object x yields    *)
(* [err, recv, out]: the error thrown ("ok" if none), the receiver after   *)
(* the call, and what is returned: an object or, for the symbols, <<j>>.   *)

Failed(x, e) == [err |-> e, recv |-> x, out |-> <<>>]
\* An in-place method: this.n is assigned and this is returned.
Mutated(x, v) == [err |-> "ok", recv |-> [x EXCEPT !.n = v], out |-> <<>>]
\* The method ran on a.clone(): the clone (same tag) is returned.
Cloned(x, v) == [err |-> "ok", recv |-> x, out |-> [x EXCEPT !.n = v]]
Number(x, v) == [err |-> "ok", recv |-> x, out |-> <<v>>]

\* this.n = f(...), f yielding call: nothing is assigned when f throws.
Assign(x, call) ==
    CHOOSE o \in {IF r.err # "ok" THEN Failed(x, r.err)
                  ELSE Mutated(x, r.val) : r \in {call}} : TRUE

\* The same on a clone of x, which is returned.
AssignClone(x, call) ==
    CHOOSE o \in {IF r.err # "ok" THEN Failed(x, r.err)
                  ELSE Cloned(x, r.val) : r \in {call}} : TRUE

\* return f(...)
Return(x, call) ==
    CHOOSE o \in {IF r.err # "ok" THEN Failed(x, r.err)
                  ELSE Number(x, r.val) : r \in {call}} : TRUE

\* red(this.red, name), then the method of this.red.
InPlace(x, call) == IF x.red = 0 THEN Failed(x, RedMsg) ELSE Assign(x, call)

OnCopy(x, call) ==
    IF x.red = 0 THEN Failed(x, RedMsg) ELSE AssignClone(x, call)

Symbol(x, call) == IF x.red = 0 THEN Failed(x, RedMsg) ELSE Return(x, call)

\* (mutant) a tagged value is converted again.
BN_toRed_retagging(x, c) ==
    IF enforce(c # 0) # "ok" THEN Failed(x, enforce(c # 0))
    ELSE [err |-> "ok", recv |-> x, out |-> [n |-> Red_convertTo(c, x), red |-> c]]

BN_toRed(x, c) ==
    IF enforce(c # 0) # "ok" THEN Failed(x, enforce(c # 0))
    ELSE IF x.red # 0 THEN Failed(x, AlreadyRed)
    ELSE [err |-> "ok", recv |-> x,
          out |-> [n |-> Red_convertTo(c, x), red |-> c]]

\* (mutant) fromRed clears the tag of the receiver and returns it.
BN_fromRed_inPlace(x) ==
    IF x.red = 0 THEN Failed(x, RedMsg)
    ELSE [err |-> "ok", recv |-> [x EXCEPT !.red = 0], out |-> <<>>]

BN_fromRed(x) ==
    IF x.red = 0 THEN Failed(x, RedMsg)
    ELSE [err |-> "ok", recv |-> x, out |-> [x EXCEPT !.red = 0]]

BN_forceRed(x, c) ==
    IF x.red # 0 THEN Failed(x, AlreadyRed)
    ELSE [err |-> "ok", recv |-> [x EXCEPT !.red = c], out |-> <<>>]

BN_redIAdd(x, y) == InPlace(x, Red_iadd(M(x.red), x, y))
BN_redAdd(x, y) == OnCopy(x, Red_iadd(M(x.red), x, y))
BN_redISub(x, y) == InPlace(x, Red_isub(M(x.red), x, y))
BN_redSub(x, y) == OnCopy(x, Red_isub(M(x.red), x, y))
BN_redIShln(x, num) == InPlace(x, Red_ishln(M(x.red), x, num))
BN_redShln(x, num) == OnCopy(x, Red_ishln(M(x.red), x, num))
BN_redIMul(x, y) == InPlace(x, Red_imul(M(x.red), x, y))
BN_redMul(x, y) == OnCopy(x, Red_imul(M(x.red), x, y))
BN_redISqr(x) == InPlace(x, Red_isqr(M(x.red), x))
BN_redSqr(x) == OnCopy(x, Red_isqr(M(x.red), x))
BN_redISqrt(x) == InPlace(x, Red_isqrt(M(x.red), x))
BN_redSqrt(x) == OnCopy(x, Red_isqrt(M(x.red), x))
BN_redIInvert(x) == InPlace(x, Red_iinvert(M(x.red), x))
BN_redInvert(x) == OnCopy(x, Red_iinvert(M(x.red), x))
BN_redIFermat(x) == InPlace(x, Red_ifermat(M(x.red), x))
BN_redFermat(x) == OnCopy(x, Red_ifermat(M(x.red), x))
BN_redINeg(x) == InPlace(x, Red_ineg(M(x.red), x))
BN_redNeg(x) == OnCopy(x, Red_ineg(M(x.red), x))
BN_redLegendre(x) == Symbol(x, Red_legendre(M(x.red), x))
BN_redJacobi(x) == Symbol(x, Red_jacobi(M(x.red), x))
BN_redKronecker(x) == Symbol(x, Red_kronecker(M(x.red), x))

\* redIPow/redPow: red(this.red), then nonred(!num.red).
BN_redIPow(x, num) ==
    IF x.red # 0 /\ num.red # 0 THEN Failed(x, NonRedMsg)
    ELSE InPlace(x, Red_ipow(M(x.red), x, num))

BN_redPow(x, num) ==
    IF x.red # 0 /\ num.red # 0 THEN Failed(x, NonRedMsg)
    ELSE OnCopy(x, Red_ipow(M(x.red), x, num))

BN_redIPown(x, num) == InPlace(x, Red_ipown(M(x.red), x, num))
BN_redPown(x, num) == OnCopy(x, Red_ipown(M(x.red), x, num))

\* A raw method, which reads and assigns this.n only, called on the object
\* x: call is its outcome on x.n.  clone() copies the tag.
RawInPlace(x, call) ==
    CHOOSE o \in {IF r.err # "ok" THEN Failed(x, r.err)
                  ELSE Mutated(x, r.self) : r \in {call}} : TRUE

RawOnCopy(x, call) ==
    CHOOSE o \in {IF r.err # "ok" THEN Failed(x, r.err)
                  ELSE Cloned(x, r.ret[1]) : r \in {call}} : TRUE

\* The raw methods that look at the tag: y is an object, m and p stand
\* for untagged objects of those values.
BN_ipowm(x, y, m) ==
    LET e == FirstError(<<range(m >= 1), nonred(x.red = 0 /\ y.red = 0)>>)
    IN IF e # "ok" THEN Failed(x, e) ELSE Assign(x, powm(x.n, y.n, m))

\* (mutant) isqrtm without its nonred check.
BN_isqrtm_unchecked(x, p) ==
    LET e == FirstError(<<range(p >= 1)>>)
    IN IF e # "ok" THEN Failed(x, e) ELSE Assign(x, sqrtm(x.n, p))

BN_isqrtm(x, p) ==
    LET e == FirstError(<<range(p >= 1), nonred(x.red = 0)>>)
    IN IF e # "ok" THEN Failed(x, e) ELSE Assign(x, sqrtm(x.n, p))

BN_isqrtpq(x, p, q) ==
    LET e == FirstError(<<range(p >= 1), range(q >= 1), nonred(x.red = 0)>>)
    IN IF e # "ok" THEN Failed(x, e) ELSE Assign(x, sqrtpq(x.n, p, q))

----------------------------------------------------------------------------
(* The prime catalogue and the Red constructor.                            *)

\* The members that the table, an object literal, inherits from
\* Object.prototype: primes[name] finds them though they are no keys of it.
ObjectMembers == <<"constructor", "toString", "valueOf", "hasOwnProperty">>

\* primes[name]: the entry stored under a key (0 for null), the inherited
\* member (numbered below 0), or 0 for undefined.
PrimesAt(tbl, name) ==
    IF name \in PrimeNames THEN tbl[name]
    ELSE IF \E i \in 1..Len(ObjectMembers) : ObjectMembers[i] = name
    THEN -(CHOOSE i \in 1..Len(ObjectMembers) : ObjectMembers[i] = name)
    ELSE 0

\* BN._prime(name) on the table tbl: the table afterwards and the value
\* returned, or the error.  An entry is 0 (null) or the identity of the
\* Prime object stored.
BN_prime(tbl, name) ==
    IF PrimesAt(tbl, name) # 0
    THEN [err |-> "ok", tbl |-> tbl, val |-> PrimesAt(tbl, name)]
    ELSE IF name \in PrimeNames
    THEN LET prime == 1 + Cardinality({k \in PrimeNames : tbl[k] # 0})
         IN [err |-> "ok", tbl |-> [tbl EXCEPT ![name] = prime],
             val |-> prime]
    ELSE [err |-> "Unknown prime", tbl |-> tbl, val |-> 0]

\* new Red(m), m a bignum of value v: range(m.n >= 1n, 'reduction').
Red_constructor(v) == range(v >= 1)

----------------------------------------------------------------------------
(* Spec: a program holding BN objects in variables calls the methods that  *)
(* deal with the tag and the ring methods, in any order.  SpecRing is the  *)
(* same program restricted to toRed, fromRed and the ring methods, on      *)
(* contexts of small moduli; SpecRaw calls the raw methods instead.        *)

Init ==
    /\ RingInit
    /\ a = 0 /\ b = 0 /\ self = 0
    /\ op = "init" /\ ret = <<>> /\ err = "ok" /\ hist = <<>> /\ env = <<>>

CtxIds == 1..Len(ctxs)

\* A call that does not return leaves the program inside it.
Live == res.err # Diverges

Rec(name, s, t, r) ==
    [op |-> name, s |-> s, t |-> t, err |-> r.err, val |-> <<>>]

\* The arithmetic of a method is followed when the context of the receiver
\* holds a small modulus; e is the outcome of the checks made before it.
Followed(x, e) == IF x.red = 0 \/ e # "ok" THEN TRUE ELSE Small(x.red)

\* x.method(...): the receiver, in variable s, is changed in place; call
\* is the outcome of the method.
CallInPlace(name, s, t, call) ==
    \E r \in {call} :
        /\ Live
        /\ r.recv.n \in Vals
        /\ bn' = [bn EXCEPT ![s] = r.recv]
        /\ res' = Rec(name, s, t, r)
        /\ UNCHANGED <<ctxs, primes, arithVars>>

\* z = x.method(...): the object returned is bound to variable d.
CallValue(name, s, t, d, call) ==
    \E r \in {call} :
        /\ Live
        /\ r.err = "ok" => r.out.n \in Vals
        /\ bn' = IF r.err = "ok" THEN [bn EXCEPT ![d] = r.out] ELSE bn
        /\ res' = Rec(name, s, t, r)
        /\ UNCHANGED <<ctxs, primes, arithVars>>

\* j = x.method(): a number is returned.
CallSymbol(name, s, call) ==
    \E r \in {call} :
        /\ Live
        /\ res' = [Rec(name, s, 0, r) EXCEPT
                       !.val = IF r.err = "ok" THEN r.out ELSE <<>>]
        /\ UNCHANGED <<bn, ctxs, primes, arithVars>>

\* x = new BN(v)
NewBN ==
    \E d \in Slots, v \in Inputs :
        /\ Live
        /\ bn' = [bn EXCEPT ![d] = [n |-> v, red |-> 0]]
        /\ res' = [NoCall EXCEPT !.op = "new", !.s = d]
        /\ UNCHANGED <<ctxs, primes, arithVars>>

\* BN.red(new BN(v))
RedCtor ==
    \E v \in ModInputs :
        /\ Live
        /\ Len(ctxs) < MaxCtx
        /\ ctxs' = IF Red_constructor(v) = "ok"
                   THEN Append(ctxs, [name |-> "", m |-> v]) ELSE ctxs
        /\ res' = [NoCall EXCEPT !.op = "red", !.err = Red_constructor(v)]
        /\ UNCHANGED <<bn, primes, arithVars>>

\* BN.red(name): m = BN._prime(name).p, then the checks on m (what an
\* inherited member has for p is no bignum).
RedCtorNamed ==
    \E name \in NameInputs :
        LET r == BN_prime(primes, name)
            e == IF r.err # "ok" THEN r.err ELSE enforce(r.val > 0)
        IN /\ Live
           /\ Len(ctxs) < MaxCtx
           /\ primes' = r.tbl
           /\ ctxs' = IF e = "ok"
                      THEN Append(ctxs, [name |-> name, m |-> 0]) ELSE ctxs
           /\ res' = [NoCall EXCEPT !.op = "red", !.err = e, !.val = <<name>>]
           /\ UNCHANGED <<bn, arithVars>>

\* BN._prime(name)
CatalogueInputs == PrimeNames \cup {"p1", "toString"}

Prime ==
    \E name \in CatalogueInputs :
        \E r \in {BN_prime(primes, name)} :
            /\ Live
            /\ primes' = r.tbl
            /\ res' = [NoCall EXCEPT
                           !.op = "_prime", !.err = r.err,
                           !.val = IF r.err = "ok" THEN <<name, r.val>>
                                   ELSE <<name>>]
            /\ UNCHANGED <<bn, ctxs, arithVars>>

\* x = x.toRed(ctx); ctx 0 stands for an argument that is not a Red.
ToRed ==
    \E s \in Slots, c \in {0} \cup CtxIds :
        /\ IF c = 0 \/ bn[s].red # 0 \/ bn[s].n >= 0 THEN TRUE ELSE Small(c)
        /\ CallValue("toRed", s, 0, s, BN_toRed(bn[s], c))

\* x = x.fromRed()
FromRed ==
    \E s \in Slots :
        CallValue("fromRed", s, 0, s, BN_fromRed(bn[s]))

\* x.forceRed(ctx)
ForceRed ==
    \E s \in Slots, c \in CtxIds :
        CallInPlace("forceRed", s, 0, BN_forceRed(bn[s], c))

\* The ring methods: x.redIAdd(y), z = x.redAdd(y), and so on.
RedIAdd ==
    \E s \in Receivers, t \in Operands :
        /\ Followed(bn[s], Red_verify2(bn[s], bn[t]))
        /\ CallInPlace("redIAdd", s, t, BN_redIAdd(bn[s], bn[t]))

RedAdd ==
    \E s \in Receivers, t \in Operands, d \in Slots :
        /\ Followed(bn[s], Red_verify2(bn[s], bn[t]))
        /\ CallValue("redAdd", s, t, d, BN_redAdd(bn[s], bn[t]))

RedISub ==
    \E s \in Receivers, t \in Operands :
        /\ Followed(bn[s], Red_verify2(bn[s], bn[t]))
        /\ CallInPlace("redISub", s, t, BN_redISub(bn[s], bn[t]))

RedSub ==
    \E s \in Receivers, t \in Operands, d \in Slots :
        /\ Followed(bn[s], Red_verify2(bn[s], bn[t]))
        /\ CallValue("redSub", s, t, d, BN_redSub(bn[s], bn[t]))

RedIMul ==
    \E s \in Receivers, t \in Operands :
        /\ Followed(bn[s], Red_verify2(bn[s], bn[t]))
        /\ CallInPlace("redIMul", s, t, BN_redIMul(bn[s], bn[t]))

RedMul ==
    \E s \in Receivers, t \in Operands, d \in Slots :
        /\ Followed(bn[s], Red_verify2(bn[s], bn[t]))
        /\ CallValue("redMul", s, t, d, BN_redMul(bn[s], bn[t]))

RedIShln ==
    \E s \in Receivers, num \in ExpInputs :
        /\ Followed(bn[s], Red_verify1(bn[s]))
        /\ CallInPlace("redIShln", s, 0, BN_redIShln(bn[s], num))

RedShln ==
    \E s \in Receivers, d \in Slots, num \in ExpInputs :
        /\ Followed(bn[s], Red_verify1(bn[s]))
        /\ CallValue("redShln", s, 0, d, BN_redShln(bn[s], num))

RedIPown ==
    \E s \in Receivers, num \in ExpInputs :
        /\ Followed(bn[s], Red_verify1(bn[s]))
        /\ CallInPlace("redIPown", s, 0, BN_redIPown(bn[s], num))

RedPown ==
    \E s \in Receivers, d \in Slots, num \in ExpInputs :
        /\ Followed(bn[s], Red_verify1(bn[s]))
        /\ CallValue("redPown", s, 0, d, BN_redPown(bn[s], num))

RedISqr ==
    \E s \in Receivers :
        /\ Followed(bn[s], Red_verify1(bn[s]))
        /\ CallInPlace("redISqr", s, 0, BN_redISqr(bn[s]))

RedSqr ==
    \E s \in Receivers, d \in Slots :
        /\ Followed(bn[s], Red_verify1(bn[s]))
        /\ CallValue("redSqr", s, 0, d, BN_redSqr(bn[s]))

RedISqrt ==
    \E s \in Receivers :
        /\ Followed(bn[s], Red_verify1(bn[s]))
        /\ CallInPlace("redISqrt", s, 0, BN_redISqrt(bn[s]))

RedSqrt ==
    \E s \in Receivers, d \in Slots :
        /\ Followed(bn[s], Red_verify1(bn[s]))
        /\ CallValue("redSqrt", s, 0, d, BN_redSqrt(bn[s]))

RedIInvert ==
    \E s \in Receivers :
        /\ Followed(bn[s], Red_verify1(bn[s]))
        /\ CallInPlace("redIInvert", s, 0, BN_redIInvert(bn[s]))

RedInvert ==
    \E s \in Receivers :
        /\ Followed(bn[s], Red_verify1(bn[s]))
        /\ CallInPlace("redInvert", s, 0, BN_redInvert(bn[s]))

RedIFermat ==
    \E s \in Receivers :
        /\ Followed(bn[s], Red_verify1(bn[s]))
        /\ CallInPlace("redIFermat", s, 0, BN_redIFermat(bn[s]))

RedFermat ==
    \E s \in Receivers, d \in Slots :
        /\ Followed(bn[s], Red_verify1(bn[s]))
        /\ CallValue("redFermat", s, 0, d, BN_redFermat(bn[s]))

RedINeg ==
    \E s \in Receivers :
        /\ Followed(bn[s], Red_verify1(bn[s]))
        /\ CallInPlace("redINeg", s, 0, BN_redINeg(bn[s]))

RedNeg ==
    \E s \in Receivers, d \in Slots :
        /\ Followed(bn[s], Red_verify1(bn[s]))
        /\ CallValue("redNeg", s, 0, d, BN_redNeg(bn[s]))

RedLegendre ==
    \E s \in Receivers :
        /\ Followed(bn[s], Red_verify1(bn[s]))
        /\ CallSymbol("redLegendre", s, BN_redLegendre(bn[s]))

RedJacobi ==
    \E s \in Receivers :
        /\ Followed(bn[s], Red_verify1(bn[s]))
        /\ CallSymbol("redJacobi", s, BN_redJacobi(bn[s]))

RedKronecker ==
    \E s \in Receivers :
        /\ Followed(bn[s], Red_verify1(bn[s]))
        /\ CallSymbol("redKronecker", s, BN_redKronecker(bn[s]))

\* x.redIPow(y), z = x.redPow(y): the exponent is an object.
RedIPow ==
    \E s \in Receivers, t \in Operands :
        /\ Followed(bn[s], IF bn[t].red # 0 THEN NonRedMsg
                           ELSE Red_verify1(bn[s]))
        /\ CallInPlace("redIPow", s, t, BN_redIPow(bn[s], bn[t]))

RedPow ==
    \E s \in Receivers, t \in Operands, d \in Slots :
        /\ Followed(bn[s], IF bn[t].red # 0 THEN NonRedMsg
                           ELSE Red_verify1(bn[s]))
        /\ CallValue("redPow", s, t, d, BN_redPow(bn[s], bn[t]))

\* The raw methods, on whatever object the variable holds.
CallIadd ==
    \E s \in Receivers, t \in Operands :
        CallInPlace("iadd", s, t, RawInPlace(bn[s], BN_iadd(bn[s].n, bn[t].n)))

CallAdd ==
    \E s \in Receivers, t \in Operands, d \in Slots :
        CallValue("add", s, t, d, RawOnCopy(bn[s], BN_add(bn[s].n, bn[t].n)))

CallIsub ==
    \E s \in Receivers, t \in Operands :
        CallInPlace("isub", s, t, RawInPlace(bn[s], BN_isub(bn[s].n, bn[t].n)))

CallImul ==
    \E s \in Receivers, t \in Operands :
        CallInPlace("imul", s, t, RawInPlace(bn[s], BN_imul(bn[s].n, bn[t].n)))

CallImod ==
    \E s \in Receivers, t \in Operands :
        CallInPlace("imod", s, t, RawInPlace(bn[s], BN_imod(bn[s].n, bn[t].n)))

CallIinvert ==
    \E s \in Receivers, t \in Operands :
        CallInPlace("iinvert", s, t,
                    RawInPlace(bn[s], BN_iinvert(bn[s].n, bn[t].n)))

CallIpowm ==
    \E s \in Receivers, t \in Operands, m \in ModInputs :
        CallInPlace("ipowm", s, t, BN_ipowm(bn[s], bn[t], m))

CallIsqrtm ==
    \E s \in Receivers, p \in ModInputs :
        CallInPlace("isqrtm", s, 0, BN_isqrtm(bn[s], p))

NextRing ==
    \/ NewBN \/ RedCtor \/ ToRed \/ FromRed
    \/ RedIAdd \/ RedAdd \/ RedISub \/ RedSub \/ RedIMul \/ RedMul
    \/ RedIShln \/ RedShln \/ RedIPown \/ RedPown \/ RedIPow \/ RedPow
    \/ RedISqr \/ RedSqr \/ RedISqrt \/ RedSqrt
    \/ RedIInvert \/ RedInvert \/ RedIFermat \/ RedFermat
    \/ RedINeg \/ RedNeg
    \/ RedLegendre \/ RedJacobi \/ RedKronecker

\* The raw methods on tagged and untagged objects.
NextRaw ==
    \/ NewBN \/ RedCtor \/ ToRed \/ FromRed
    \/ CallIadd \/ CallAdd \/ CallIsub \/ CallImul \/ CallImod \/ CallIinvert
    \/ CallIpowm \/ CallIsqrtm

Next ==
    \/ NextRing
    \/ RedCtorNamed \/ ForceRed

Spec == Init /\ [][Next]_vars

SpecRaw == Init /\ [][NextRaw]_vars

SpecRing == Init /\ [][NextRing]_vars

\* The calls that look a name up in the catalogue.
NextCatalogue ==
    \/ Prime
    \/ RedCtorNamed

SpecCatalogue == Init /\ [][NextCatalogue]_vars

----------------------------------------------------------------------------
(* SpecArith: one call of a raw method, x.method(y), with x = a, y = b.    *)

ArithInit ==
    /\ a \in NumRange
    /\ b \in NumRange
    /\ self = a
    /\ op = "init"
    /\ ret = <<>>
    /\ err = "ok"
    /\ hist = <<>>
    /\ env = <<>>
    /\ RingInit

Call(name, r) ==
    /\ op = "init"
    /\ op' = name
    /\ self' = r.self
    /\ ret' = r.ret
    /\ err' = r.err
    /\ UNCHANGED <<a, b, hist, env, ringVars>>

Quorem == Call("quorem", BN_quorem(self, b))

Iquo == Call("iquo", BN_iquo(self, b))

Iquon == Call("iquon", BN_iquon(self, b))

Quo == Call("quo", BN_quo(self, b))

Quon == Call("quon", BN_quon(self, b))

Irem == Call("irem", BN_irem(self, b))

Iremn == Call("iremn", BN_iremn(self, b))

Rem == Call("rem", BN_rem(self, b))

Remn == Call("remn", BN_remn(self, b))

Remrn == Call("remrn", BN_remrn(self, b))

Divmod == Call("divmod", BN_divmod(self, b))

Idiv == Call("idiv", BN_idiv(self, b))

Idivn == Call("idivn", BN_idivn(self, b))

Div == Call("div", BN_div(self, b))

Divn == Call("divn", BN_divn(self, b))

Imod == Call("imod", BN_imod(self, b))

Imodn == Call("imodn", BN_imodn(self, b))

Mod == Call("mod", BN_mod(self, b))

Modn == Call("modn", BN_modn(self, b))

Modrn == Call("modrn", BN_modrn(self, b))

DivRound == Call("divRound", BN_divRound(self, b))

Ipow == Call("ipow", BN_ipow(self, b))

Ipown == Call("ipown", BN_ipown(self, b))

Pow == Call("pow", BN_pow(self, b))

Pown == Call("pown", BN_pown(self, b))

Iuand == Call("iuand", BN_iuand(self, b))

Uand == Call("uand", BN_uand(self, b))

Iuor == Call("iuor", BN_iuor(self, b))

Uor == Call("uor", BN_uor(self, b))

Iuxor == Call("iuxor", BN_iuxor(self, b))

Uxor == Call("uxor", BN_uxor(self, b))

Iushr == Call("iushr", BN_iushr(self, b))

Ushr == Call("ushr", BN_ushr(self, b))

NextArith ==
    \/ Quorem
    \/ Iquo
    \/ Iquon
    \/ Quo
    \/ Quon
    \/ Irem
    \/ Iremn
    \/ Rem
    \/ Remn
    \/ Remrn
    \/ Divmod
    \/ Idiv
    \/ Idivn
    \/ Div
    \/ Divn
    \/ Imod
    \/ Imodn
    \/ Mod
    \/ Modn
    \/ Modrn
    \/ DivRound
    \/ Ipow
    \/ Ipown
    \/ Pow
    \/ Pown
    \/ Iuand
    \/ Uand
    \/ Iuor
    \/ Uor
    \/ Iuxor
    \/ Uxor
    \/ Iushr
    \/ Ushr

SpecArith == ArithInit /\ [][NextArith]_vars

----------------------------------------------------------------------------
(* SpecTwos: x = x.toTwos(w) / x = x.fromTwos(w), up to MaxCalls times,    *)
(* with x = a at first and w = b throughout.                               *)

TwosInit ==
    /\ a \in NumRange
    /\ b \in WidthRange
    /\ self = a
    /\ op = "init"
    /\ ret = <<>>
    /\ err = "ok"
    /\ hist = <<>>
    /\ env = <<>>
    /\ RingInit

\* x = x.method(w): the variable is rebound to the returned object; an
\* error propagates and ends the chain.
Chain(name, r) ==
    /\ err = "ok"
    /\ Len(hist) < MaxCalls
    /\ op' = name
    /\ err' = r.err
    /\ ret' = r.ret
    /\ self' = IF r.err = "ok" THEN r.ret[1] ELSE self
    /\ hist' = IF r.err = "ok" THEN Append(hist, <<name, r.ret[1]>>) ELSE hist
    /\ UNCHANGED <<a, b, env, ringVars>>

ToTwos == Chain("toTwos", BN_toTwos(self, b))

FromTwos == Chain("fromTwos", BN_fromTwos(self, b))

NextTwos ==
    \/ ToTwos
    \/ FromTwos

SpecTwos == TwosInit /\ [][NextTwos]_vars

----------------------------------------------------------------------------
(* SpecBytes: buf = x.toBuffer(endian, length) with x = a, length = b,     *)
(* then y = BN.fromBuffer(buf, endian) with the same endian (hist holds    *)
(* it), on a machine of either endianness.                                 *)

\* Lengths asked of toBuffer range over 0..MaxLength, and 9, a length of
\* more than one 64-bit word.
MaxLength == 3
LengthInputs == (0..MaxLength) \cup {9}

\* Values serialized: the edges of one, two and three bytes.
ByteValues ==
    {-65536, -256, -255, -1, 0, 1, 15, 16, 255, 256, 257, 4660,
     65535, 65536, 1193046, 16777215, 16777216}

Endians == {"be", "le"}

\* byteOffset of the buffer decoded, modulo 8.
Offsets == {0, 3, 7}

\* The bytes that precede the buffer in its ArrayBuffer: filler, filler + 1, ...
Fillers == {0, 170}
BytesBefore(filler) == [i \in 1..7 |-> filler + i]

\* x.toBuffer(endian, length)
BN_toBuffer(n, endian, length) == toBuffer(n, endian, length)

\* BN.fromBuffer(data, endian): new BN().fromBuffer(data, endian)
BN_fromBuffer(data, endian, ENDIAN, offset, before) ==
    fromBuffer(data, endian, ENDIAN, offset, before)

BytesInit ==
    /\ a \in ByteValues
    /\ b \in LengthInputs
    /\ self = a
    /\ op = "init"
    /\ ret = <<>>
    /\ err = "ok"
    /\ hist = <<>>
    /\ env \in [ENDIAN : Endians, offset : {0}]
    /\ RingInit

ToBuffer ==
    /\ op = "init"
    /\ \E endian \in Endians :
           \E r \in {BN_toBuffer(self, endian, b)} :
               /\ op' = "toBuffer"
               /\ err' = r.err
               /\ ret' = IF r.err = "ok" THEN <<r.val>> ELSE <<>>
               /\ hist' = <<endian>>
               /\ UNCHANGED <<a, b, self, env, ringVars>>

FromBuffer ==
    /\ op = "toBuffer"
    /\ err = "ok"
    /\ \E offset \in Offsets, filler \in Fillers :
           \E r \in {BN_fromBuffer(ret[1], hist[1], env.ENDIAN, offset,
                                   BytesBefore(filler))} :
               /\ op' = "fromBuffer"
               /\ err' = r.err
               /\ ret' = IF r.err = "ok" THEN <<r.val>> ELSE <<>>
               /\ self' = IF r.err = "ok" THEN r.val ELSE self
               /\ env' = [env EXCEPT !.offset = offset]
               /\ UNCHANGED <<a, b, hist, ringVars>>

NextBytes ==
    \/ ToBuffer
    \/ FromBuffer

SpecBytes == BytesInit /\ [][NextBytes]_vars

----------------------------------------------------------------------------
(* SpecNumber: one call of a number-theoretic method, x.method(y) with     *)
(* x = a and y = b; the second modulus of sqrtpq is kept in env.           *)

\* Receivers range over -MaxArg..MaxArg and 30; moduli over
\* -MinModulus..MaxModulus, the prime 41 (1 modulo 8, with 2^3 dividing
\* 40) and the prime 59 (jacobi(30, 59) is the textbook vector).
MaxArg == 20
MinModulus == 5
MaxModulus == 19
NumberArgs == ((-MaxArg)..MaxArg) \cup {30}
Moduli == ((-MinModulus)..MaxModulus) \cup {41, 59}
SecondModuli == {0, 3, 7, 13, 17}

NumberInit ==
    /\ a \in NumberArgs
    /\ b \in Moduli
    /\ self = a
    /\ op = "init"
    /\ ret = <<>>
    /\ err = "ok"
    /\ hist = <<>>
    /\ env = <<>>
    /\ RingInit

\* call is the outcome [err, self, ret] of the method.
NumberCall(name, call) ==
    /\ op = "init"
    /\ \E r \in {call} :
           /\ op' = name
           /\ self' = r.self
           /\ ret' = r.ret
           /\ err' = r.err
           /\ UNCHANGED <<a, b, hist, ringVars>>

\* The outcome of a method written for tagged and untagged receivers, on
\* an untagged one.
Untagged(n) == [n |-> n, red |-> 0]
OfUntagged(call) ==
    CHOOSE o \in {[err |-> r.err, self |-> r.recv.n,
                   ret |-> IF r.err = "ok" THEN <<r.recv.n>> ELSE <<>>] :
                  r \in {call}} : TRUE

Iinvert == NumberCall("iinvert", BN_iinvert(self, b)) /\ UNCHANGED env

Ifermat == NumberCall("ifermat", BN_ifermat(self, b)) /\ UNCHANGED env

Legendre == NumberCall("legendre", BN_legendre(self, b)) /\ UNCHANGED env

Jacobi == NumberCall("jacobi", BN_jacobi(self, b)) /\ UNCHANGED env

Kronecker == NumberCall("kronecker", BN_kronecker(self, b)) /\ UNCHANGED env

Igcd == NumberCall("igcd", BN_igcd(self, b)) /\ UNCHANGED env

Egcd == NumberCall("egcd", BN_egcd(self, b)) /\ UNCHANGED env

Isqrtm ==
    /\ NumberCall("isqrtm", OfUntagged(BN_isqrtm(Untagged(self), b)))
    /\ UNCHANGED env

Isqrtpq ==
    \E q \in SecondModuli :
        /\ NumberCall("isqrtpq",
                      OfUntagged(BN_isqrtpq(Untagged(self), b, q)))
        /\ env' = <<q>>

NextNumber ==
    \/ Iinvert
    \/ Ifermat
    \/ Legendre
    \/ Jacobi
    \/ Kronecker
    \/ Igcd
    \/ Egcd
    \/ Isqrtm
    \/ Isqrtpq

SpecNumber == NumberInit /\ [][NextNumber]_vars

----------------------------------------------------------------------------
(* SpecPrime: x.isPrime(rng, reps, 0) with x = a and reps = b.  The call   *)
(* is followed from one call of the RNG to the next: env.i is the pass of  *)
(* the Miller-Rabin loop it is in, env.again the numbers the RNG returned  *)
(* that random() refused, hist the bases used.                             *)

\* Candidates range over -1..MaxCandidate, the squares 49 and 121, the
\* pseudoprime to base 2 341 and the Carmichael number 561.
MaxCandidate == 31
Candidates == ((-1)..MaxCandidate) \cup {49, 121, 341, 561}
\* reps ranges over -1..MaxReps.
MaxReps == 2
\* Numbers refused by random() in one call of isPrime.
MaxAgain == 1

PrimeInit ==
    /\ a \in Candidates
    /\ b \in (-1)..MaxReps
    /\ self = a
    /\ op = "init"
    /\ ret = <<>>
    /\ err = "ok"
    /\ hist = <<>>
    /\ env = [i |-> 0, again |-> 0]
    /\ RingInit

\* isPrime returns r, or throws.
IsPrimeEnds(r) ==
    /\ op' = "isPrime"
    /\ err' = r.err
    /\ ret' = IF r.err = "ok" THEN <<r.val>> ELSE <<>>

\* isPrime from the return of isPrimeMR on.
BN_isPrime(n, mr, limit) ==
    IF ~mr THEN Ok(FALSE) ELSE isPrimeLucas(n, limit)

\* x.isPrime(rng, reps, 0) up to the first call of the RNG, or to its end.
IsPrimeCall ==
    /\ op = "init"
    /\ \E e \in {enforce(b >= 0)}, m \in {isPrimeMR_entry(self, b + 1)} :
           /\ IF e # "ok" THEN IsPrimeEnds(Throw(e))
              ELSE IF m.err # "ok" THEN IsPrimeEnds(Throw(m.err))
              ELSE IF m.st = "returned"
              THEN IsPrimeEnds(BN_isPrime(self, m.val, 0))
              ELSE op' = "isPrimeMR" /\ UNCHANGED <<err, ret>>
           /\ UNCHANGED <<a, b, self, hist, env, ringVars>>

\* A pass of the loop with base x went on (pass) or returned false.
AfterRound(x, pass) ==
    /\ hist' = Append(hist, x)
    /\ IF ~pass THEN IsPrimeEnds(Ok(FALSE)) /\ UNCHANGED env
       ELSE IF env.i + 1 < b + 1
       THEN /\ env' = [env EXCEPT !.i = env.i + 1]
            /\ UNCHANGED <<op, err, ret>>
       ELSE /\ IsPrimeEnds(BN_isPrime(self, TRUE, 0))
            /\ UNCHANGED env
    /\ UNCHANGED <<a, b, self, ringVars>>

\* A pass with a base drawn by random(rng, 0n, nm3), the RNG returning num.
MillerRabinRandom ==
    /\ op = "isPrimeMR"
    /\ env.i # (b + 1) - 1
    /\ \E num \in randomBitsRange(0, self - 3) :
           \E x \in {random(num, 0, self - 3)} :
               /\ x.err = "ok"
               /\ AfterRound(x.val + 2, isPrimeMR_round(self, x.val + 2))

\* The RNG returns a number that random() refuses, and is asked again.
RandomAgain ==
    /\ op = "isPrimeMR"
    /\ env.i # (b + 1) - 1
    /\ env.again < MaxAgain
    /\ \E num \in randomBitsRange(0, self - 3) :
           random(num, 0, self - 3).err = "again"
    /\ env' = [env EXCEPT !.again = env.again + 1]
    /\ UNCHANGED <<a, b, self, op, ret, err, hist, ringVars>>

\* The last pass, with the base 2 (force2).
MillerRabinForced ==
    /\ op = "isPrimeMR"
    /\ env.i = (b + 1) - 1
    /\ AfterRound(2, isPrimeMR_round(self, 2))

NextPrime ==
    \/ IsPrimeCall
    \/ MillerRabinRandom
    \/ RandomAgain
    \/ MillerRabinForced

SpecPrime == PrimeInit /\ [][NextPrime]_vars

----------------------------------------------------------------------------
(* EdDSA verification (eddsa.js).  The curve is the surroundings of the    *)
(* call: each of its operations on an argument either returns or throws,   *)
(* and what it does is an input of the call.  An item [msg, sig, key] is   *)
(* the record of what the arguments are and of what the curve does with    *)
(* them:                                                                   *)
(*   buffers  msg, sig and key are Buffers;                                *)
(*   sigLen, keyLen  sig.length and key.length;                            *)
(*   R, A     decodePoint(Rraw), decodePoint(key): "ok" or "throws";       *)
(*   S        decodeField(Sraw): the integer, or -1 when it throws;        *)
(*   Rp       G.mulAdd(S, A, -e mod n): "throws", "infinity", "R" (the     *)
(*            point equal to R) or "other".                                *)
(* ph is "null", "true", "false" or "other" (no boolean); ctx is -1 for    *)
(* null, -2 for a value that is no Buffer, else the length of the Buffer.  *)

DecodeError == "Invalid point."
NoPreHash == "Must pass pre-hash flag with context."

\* The assertions verify and verifyBatch make on ph and ctx.
EDDSA_flags(c, ph, ctx) ==
    IF ph \notin {"null", "true", "false"} THEN AssertionFailed
    ELSE IF ctx = -2 THEN AssertionFailed
    ELSE IF ctx > 255 THEN AssertionFailed
    ELSE IF ~c.context /\ ctx # -1 /\ ph = "null" THEN NoPreHash
    ELSE "ok"

\* hashInt(ph, ctx, ...items): the error thrown, "ok" if it returns.
EDDSA_hashInt(c, ph, ctx) ==
    IF ph \notin {"null", "true", "false"} THEN AssertionFailed
    ELSE IF ctx = -2 THEN AssertionFailed
    ELSE IF ctx > 255 THEN AssertionFailed
    ELSE IF ~(c.context \/ ph # "null") /\ ctx # -1 THEN NoPreHash
    ELSE "ok"

EDDSA__verify(c, it, ph, ctx) ==
    IF it.R = "throws" THEN Throw(DecodeError)
    ELSE IF it.S = -1 THEN Throw(DecodeError)
    ELSE IF it.A = "throws" THEN Throw(DecodeError)
    ELSE IF it.S >= c.n THEN Ok(FALSE)
    ELSE IF EDDSA_hashInt(c, ph, ctx) # "ok"
    THEN Throw(EDDSA_hashInt(c, ph, ctx))
    ELSE IF it.Rp = "throws" THEN Throw(AssertionFailed)
    ELSE IF it.Rp = "infinity" THEN Ok(FALSE)
    ELSE Ok(it.Rp = "R")

\* (mutant) what _verify throws is not caught.
EDDSA_verify_uncaught(c, it, ph, ctx) ==
    IF ~it.buffers THEN Throw(AssertionFailed)
    ELSE IF EDDSA_flags(c, ph, ctx) # "ok" THEN Throw(EDDSA_flags(c, ph, ctx))
    ELSE IF it.sigLen # c.fieldSize * 2 THEN Ok(FALSE)
    ELSE IF it.keyLen # c.fieldSize THEN Ok(FALSE)
    ELSE EDDSA__verify(c, it, ph, ctx)

EDDSA_verify(c, it, ph, ctx) ==
    IF ~it.buffers THEN Throw(AssertionFailed)
    ELSE IF EDDSA_flags(c, ph, ctx) # "ok" THEN Throw(EDDSA_flags(c, ph, ctx))
    ELSE IF it.sigLen # c.fieldSize * 2 THEN Ok(FALSE)
    ELSE IF it.keyLen # c.fieldSize THEN Ok(FALSE)
    ELSE IF EDDSA__verify(c, it, ph, ctx).err # "ok" THEN Ok(FALSE)
    ELSE EDDSA__verify(c, it, ph, ctx)

\* The first loop of verifyBatch, from item i on: the error thrown, "false"
\* for return false, "ok" when the loop ends.
RECURSIVE EDDSA_batchLengths(_, _, _)
EDDSA_batchLengths(c, batch, i) ==
    IF i > Len(batch) THEN "ok"
    ELSE IF ~batch[i].buffers THEN AssertionFailed
    ELSE IF batch[i].sigLen # c.fieldSize * 2 THEN "false"
    ELSE IF batch[i].keyLen # c.fieldSize THEN "false"
    ELSE EDDSA_batchLengths(c, batch, i + 1)

\* The loop of _verifyBatch, from item i on; sum is FALSE for null.  eq is
\* what lhs.eq(rhs) yields for the points and coefficients collected:
\* "true", "false" or "throws" (G.mul, mulAll or eq throwing).
RECURSIVE EDDSA__verifyBatch(_, _, _, _, _, _, _)
EDDSA__verifyBatch(c, batch, ph, ctx, eq, i, sum) ==
    IF i > Len(batch)
    THEN IF ~sum THEN Ok(TRUE)
         ELSE IF eq = "throws" THEN Throw(AssertionFailed)
         ELSE Ok(eq = "true")
    ELSE IF batch[i].R = "throws" THEN Throw(DecodeError)
    ELSE IF batch[i].S = -1 THEN Throw(DecodeError)
    ELSE IF batch[i].A = "throws" THEN Throw(DecodeError)
    ELSE IF batch[i].S >= c.n THEN Ok(FALSE)
    ELSE IF EDDSA_hashInt(c, ph, ctx) # "ok"
    THEN Throw(EDDSA_hashInt(c, ph, ctx))
    ELSE EDDSA__verifyBatch(c, batch, ph, ctx, eq, i + 1, TRUE)

EDDSA_verifyBatch(c, batch, ph, ctx, eq) ==
    IF EDDSA_flags(c, ph, ctx) # "ok" THEN Throw(EDDSA_flags(c, ph, ctx))
    ELSE IF EDDSA_batchLengths(c, batch, 1) = "false" THEN Ok(FALSE)
    ELSE IF EDDSA_batchLengths(c, batch, 1) # "ok"
    THEN Throw(EDDSA_batchLengths(c, batch, 1))
    ELSE IF EDDSA__verifyBatch(c, batch, ph, ctx, eq, 1, FALSE).err # "ok"
    THEN Ok(FALSE)
    ELSE EDDSA__verifyBatch(c, batch, ph, ctx, eq, 1, FALSE)

----------------------------------------------------------------------------
(* SpecVerify: one call of verify(msg, sig, key, ph, ctx) or of            *)
(* verifyBatch(batch, ph, ctx); hist is the batch (for verify, the one     *)
(* item), env the curve, ph, ctx and, for a batch, what lhs.eq(rhs)        *)
(* yields.  The curves of the model stand for ED25519 (no context) and     *)
(* ED448 (context), with field sizes of 2 and 3 bytes and small orders.    *)

Curves ==
    {[id |-> "ED25519", fieldSize |-> 2, scalarSize |-> 2, n |-> 13,
      context |-> FALSE],
     [id |-> "ED448", fieldSize |-> 3, scalarSize |-> 2, n |-> 251,
      context |-> TRUE]}

\* What an item can be, on the curve c.
Items(c) ==
    [buffers : BOOLEAN,
     sigLen : {c.fieldSize * 2, c.fieldSize * 2 - 1},
     keyLen : {c.fieldSize, c.fieldSize + 1},
     R : {"ok", "throws"},
     S : {-1, 0, c.n - 1, c.n},
     A : {"ok", "throws"},
     Rp : {"R", "other", "infinity", "throws"}]

\* A signature that verifies, and the items that differ from it in one way.
GoodItem(c) ==
    [buffers |-> TRUE, sigLen |-> c.fieldSize * 2, keyLen |-> c.fieldSize,
     R |-> "ok", S |-> c.n - 1, A |-> "ok", Rp |-> "R"]

BatchItems(c) ==
    {GoodItem(c),
     [GoodItem(c) EXCEPT !.buffers = FALSE],
     [GoodItem(c) EXCEPT !.sigLen = c.fieldSize * 2 - 1],
     [GoodItem(c) EXCEPT !.keyLen = c.fieldSize + 1],
     [GoodItem(c) EXCEPT !.R = "throws"],
     [GoodItem(c) EXCEPT !.S = -1],
     [GoodItem(c) EXCEPT !.S = c.n],
     [GoodItem(c) EXCEPT !.A = "throws"]}

Batches(c) ==
    {<<>>} \cup {<<it>> : it \in Items(c)}
           \cup {<<it, jt>> : it \in BatchItems(c), jt \in BatchItems(c)}

VerifyInit ==
    /\ env \in [c : Curves, ph : {"null", "true", "other"},
                ctx : {-2, -1, 0, 256}, eq : {"true", "false", "throws"}]
    /\ hist \in Batches(env.c)
    /\ a = 0 /\ b = 0 /\ self = 0
    /\ op = "init"
    /\ ret = <<>>
    /\ err = "ok"
    /\ RingInit

\* The call returns r.val or throws r.err.
VerifyEnds(name, r) ==
    /\ op = "init"
    /\ op' = name
    /\ err' = r.err
    /\ ret' = IF r.err = "ok" THEN <<r.val>> ELSE <<>>
    /\ UNCHANGED <<a, b, self, hist, env, ringVars>>

Verify ==
    /\ Len(hist) = 1
    /\ \E r \in {EDDSA_verify(env.c, hist[1], env.ph, env.ctx)} :
           VerifyEnds("verify", r)

VerifyBatch ==
    \E r \in {EDDSA_verifyBatch(env.c, hist, env.ph, env.ctx, env.eq)} :
        VerifyEnds("verifyBatch", r)

NextVerify ==
    \/ Verify
    \/ VerifyBatch

SpecVerify == VerifyInit /\ [][NextVerify]_vars

----------------------------------------------------------------------------
(* EdDSA scalar arithmetic (eddsa.js).  A scalar is a Buffer of            *)
(* curve.scalarSize bytes, read as a little-endian integer; c is the       *)
(* curve.                                                                  *)

InvalidScalar == "Invalid scalar."
InvalidScalarSize == "Invalid scalar size."

\* curve.decodeScalar(bytes): the integer the bytes stand for, the curve
\* being little-endian.
decodeScalar(c, bytes) ==
    IF Len(bytes) # c.scalarSize THEN Throw(InvalidScalarSize)
    ELSE fromBuffer(bytes, "le", "le", 0, <<>>)

\* curve.encodeScalar(s)
encodeScalar(c, s) == toBuffer(s, "le", c.scalarSize)

\* (mutant) the sum is not reduced modulo n.
scalarTweakAdd_unreduced(c, scalar, tweak) ==
    CHOOSE o \in
        {IF x.err # "ok" THEN x
         ELSE IF t.err # "ok" THEN t
         ELSE IF x.val + t.val = 0 THEN Throw(InvalidScalar)
         ELSE encodeScalar(c, x.val + t.val) :
         x \in {decodeScalar(c, scalar)}, t \in {decodeScalar(c, tweak)}} : TRUE

scalarTweakAdd(c, scalar, tweak) ==
    CHOOSE o \in
        {IF x.err # "ok" THEN x
         ELSE IF t.err # "ok" THEN t
         ELSE IF mod(x.val + t.val, c.n) = 0 THEN Throw(InvalidScalar)
         ELSE encodeScalar(c, mod(x.val + t.val, c.n)) :
         x \in {decodeScalar(c, scalar)}, t \in {decodeScalar(c, tweak)}} : TRUE

scalarTweakMul(c, scalar, tweak) ==
    CHOOSE o \in
        {IF x.err # "ok" THEN x
         ELSE IF t.err # "ok" THEN t
         ELSE IF mod(x.val * t.val, c.n) = 0 THEN Throw(InvalidScalar)
         ELSE encodeScalar(c, mod(x.val * t.val, c.n)) :
         x \in {decodeScalar(c, scalar)}, t \in {decodeScalar(c, tweak)}} : TRUE

\* BN.decode takes a buffer of any length: a longer one is cut first.
scalarReduce(c, scalar) ==
    CHOOSE o \in
        {IF x.err # "ok" THEN x ELSE encodeScalar(c, mod(x.val, c.n)) :
         x \in {fromBuffer(IF Len(scalar) > c.scalarSize
                           THEN SubSeq(scalar, 1, c.scalarSize) ELSE scalar,
                           "le", "le", 0, <<>>)}} : TRUE

scalarNegate(c, scalar) ==
    CHOOSE o \in
        {IF x.err # "ok" THEN x
         ELSE encodeScalar(c, mod(-mod(x.val, c.n), c.n)) :
         x \in {decodeScalar(c, scalar)}} : TRUE

scalarInvert(c, scalar) ==
    CHOOSE o \in
        {IF x.err # "ok" THEN x
         ELSE IF mod(x.val, c.n) = 0 THEN Throw(InvalidScalar)
         ELSE CHOOSE p \in
                  {IF s.err # "ok" THEN s
                   ELSE IF s.val = 0 THEN Throw(InvalidScalar)
                   ELSE encodeScalar(c, s.val) :
                   s \in {invert(mod(x.val, c.n), c.n)}} : TRUE :
         x \in {decodeScalar(c, scalar)}} : TRUE

----------------------------------------------------------------------------
(* SpecScalar: a key is tweaked and tweaked back.  env holds the curve     *)
(* and the program's variables: scalar and tweak, the arguments; x, the    *)
(* scalar being tweaked (scalar at first); u, scalarNegate(tweak) or       *)
(* scalarInvert(tweak) once computed (uop says which).  hist holds the     *)
(* calls of scalarTweakAdd and scalarTweakMul made: [op, x, y, by, err],   *)
(* by naming the operand y ("tweak", "neg" or "inv").  A call that throws  *)
(* ends the program.                                                       *)

\* Calls of scalarTweakAdd/scalarTweakMul in one run.
MaxTweaks == 2

\* The bytes a scalar is made of: the low byte from those around 0, around
\* the orders 13 and 251 and their multiples 260 and 502, the high byte 0
\* or 1.
ScalarBuffers ==
    {<<lo, hi>> : lo \in {0, 1, 2, 4, 5, 12, 13, 14, 246, 250, 251, 255},
                  hi \in {0, 1}}

ScalarInit ==
    /\ \E c \in Curves, scalar \in ScalarBuffers, tweak \in ScalarBuffers :
           env = [c |-> c, scalar |-> scalar, tweak |-> tweak,
                  x |-> scalar, u |-> <<>>, uop |-> "none"]
    /\ hist = <<>>
    /\ a = 0 /\ b = 0 /\ self = 0
    /\ op = "init"
    /\ ret = <<>>
    /\ err = "ok"
    /\ RingInit

\* u = scalarNegate(tweak) / u = scalarInvert(tweak)
Derive(name, by, r) ==
    /\ err = "ok"
    /\ env.uop = "none"
    /\ op' = name
    /\ err' = r.err
    /\ ret' = IF r.err = "ok" THEN <<r.val>> ELSE <<>>
    /\ env' = IF r.err = "ok" THEN [env EXCEPT !.u = r.val, !.uop = by]
              ELSE env
    /\ UNCHANGED <<a, b, self, hist, ringVars>>

ScalarNegate ==
    \E r \in {scalarNegate(env.c, env.tweak)} :
        Derive("scalarNegate", "neg", r)

ScalarInvert ==
    \E r \in {scalarInvert(env.c, env.tweak)} :
        Derive("scalarInvert", "inv", r)

\* x = scalarTweakAdd(x, y) / x = scalarTweakMul(x, y)
Tweak(name, y, by, r) ==
    /\ err = "ok"
    /\ Len(hist) < MaxTweaks
    /\ op' = name
    /\ err' = r.err
    /\ ret' = IF r.err = "ok" THEN <<r.val>> ELSE <<>>
    /\ env' = IF r.err = "ok" THEN [env EXCEPT !.x = r.val] ELSE env
    /\ hist' = Append(hist, [op |-> name, x |-> env.x, y |-> y, by |-> by,
                             err |-> r.err])
    /\ UNCHANGED <<a, b, self, ringVars>>

ScalarTweakAdd ==
    \/ \E r \in {scalarTweakAdd(env.c, env.x, env.tweak)} :
           Tweak("scalarTweakAdd", env.tweak, "tweak", r)
    \/ /\ env.uop # "none"
       /\ \E r \in {scalarTweakAdd(env.c, env.x, env.u)} :
              Tweak("scalarTweakAdd", env.u, env.uop, r)

ScalarTweakMul ==
    \/ \E r \in {scalarTweakMul(env.c, env.x, env.tweak)} :
           Tweak("scalarTweakMul", env.tweak, "tweak", r)
    \/ /\ env.uop # "none"
       /\ \E r \in {scalarTweakMul(env.c, env.x, env.u)} :
              Tweak("scalarTweakMul", env.u, env.uop, r)

NextScalar ==
    \/ ScalarNegate
    \/ ScalarInvert
    \/ ScalarTweakAdd
    \/ ScalarTweakMul

SpecScalar == ScalarInit /\ [][NextScalar]_vars

----------------------------------------------------------------------------
(* SpecResidue: a program computes in the ring of integers modulo m.  It   *)
(* holds ctx = BN.red(new BN(m)) and six variables: x = new BN(a) and      *)
(* y = new BN(b) (1, 2), rx = x.toRed(ctx) and ry = y.toRed(ctx) (3, 4),   *)
(* z = rx.redAdd(ry) and the like (5), u = v.fromRed() (6).  res is the    *)
(* last call: the method, the variables of receiver, operand and result,   *)
(* the number passed, the error, the receiver and the operand as they      *)
(* were before the call, and whether the object returned is the receiver.  *)

\* The largest modulus, and the largest shift count.
MaxResidue == 5
MaxShift == 3

ResidueInputs == (-1)..(MaxResidue + 1)
ResidueSlots == 1..6

ResidueInit ==
    /\ \E m \in 1..MaxResidue, x \in ResidueInputs, y \in ResidueInputs :
           /\ a = x /\ b = y
           /\ ctxs = <<[name |-> "", m |-> m]>>
           /\ bn = [s \in ResidueSlots |->
                        [n |-> IF s = 1 THEN x ELSE IF s = 2 THEN y ELSE 0,
                         red |-> 0]]
    /\ primes = [name \in PrimeNames |-> 0]
    /\ res = [op |-> "init", s |-> 0, t |-> 0, d |-> 0, k |-> 0,
              err |-> "ok", x |-> <<>>, y |-> <<>>, alias |-> FALSE]
    /\ self = 0 /\ op = "init" /\ ret = <<>> /\ err = "ok"
    /\ hist = <<>> /\ env = <<>>

\* d = s.method(t) or d = s.method(k): the receiver is left as the method
\* left it, and d is bound to the object returned (the receiver itself
\* when the method returns this).
ResidueCall(name, s, t, d, k, call) ==
    \E r \in {call} :
        /\ bn' = [bn EXCEPT ![s] = r.recv,
                            ![d] = IF r.err # "ok" THEN bn[d]
                                   ELSE IF r.out = <<>> THEN r.recv
                                   ELSE r.out]
        /\ res' = [op |-> name, s |-> s, t |-> t, d |-> d, k |-> k,
                   err |-> r.err, x |-> bn[s],
                   y |-> IF t = 0 THEN <<>> ELSE bn[t],
                   alias |-> r.err = "ok" /\ r.out = <<>>]
        /\ UNCHANGED <<ctxs, primes, arithVars>>

\* rx = x.toRed(ctx), ry = y.toRed(ctx)
ResidueToRed ==
    \E s \in {1, 2} : ResidueCall("toRed", s, 0, s + 2, 0, BN_toRed(bn[s], 1))

\* u = rx.fromRed(), u = ry.fromRed(), u = z.fromRed()
ResidueFromRed ==
    \E s \in {3, 4, 5} : ResidueCall("fromRed", s, 0, 6, 0, BN_fromRed(bn[s]))

ResidueAdd == ResidueCall("redAdd", 3, 4, 5, 0, BN_redAdd(bn[3], bn[4]))

ResidueSub == ResidueCall("redSub", 3, 4, 5, 0, BN_redSub(bn[3], bn[4]))

ResidueMul == ResidueCall("redMul", 3, 4, 5, 0, BN_redMul(bn[3], bn[4]))

ResidueSqr == ResidueCall("redSqr", 3, 0, 5, 0, BN_redSqr(bn[3]))

ResidueNeg == ResidueCall("redNeg", 3, 0, 5, 0, BN_redNeg(bn[3]))

ResidueShln ==
    \E k \in 0..MaxShift :
        ResidueCall("redShln", 3, 0, 5, k, BN_redShln(bn[3], k))

\* z = rx.redPow(y): the exponent is an ordinary number.
ResiduePow == ResidueCall("redPow", 3, 2, 5, 0, BN_redPow(bn[3], bn[2]))

ResidueInvert == ResidueCall("redInvert", 3, 0, 5, 0, BN_redInvert(bn[3]))

NextResidue ==
    \/ ResidueToRed
    \/ ResidueFromRed
    \/ ResidueAdd
    \/ ResidueSub
    \/ ResidueMul
    \/ ResidueSqr
    \/ ResidueNeg
    \/ ResidueShln
    \/ ResiduePow
    \/ ResidueInvert

SpecResidue == ResidueInit /\ [][NextResidue]_vars

----------------------------------------------------------------------------
(* SpecLucas: isPrimeLucas(n, limit) with n = a and limit = b.             *)

\* n ranges over -1..MaxLucas, the squares of 7, 11, 41 and 43, and the
\* composites 341 and 561; limit over 0..MaxLimit and 39, 40, 41 (the
\* search tests for a square when it reaches p = 40).
MaxLucas == 31
MaxLimit == 6
LucasCandidates == ((-1)..MaxLucas) \cup {49, 121, 341, 561, 1681, 1849}
LucasLimits == (0..MaxLimit) \cup {39, 40, 41}

LucasInit ==
    /\ a \in LucasCandidates
    /\ b \in LucasLimits
    /\ self = a
    /\ op = "init"
    /\ ret = <<>>
    /\ err = "ok"
    /\ hist = <<>>
    /\ env = <<>>
    /\ RingInit

IsPrimeLucas ==
    /\ op = "init"
    /\ \E r \in {isPrimeLucas(self, b)} :
           /\ op' = "isPrimeLucas"
           /\ err' = r.err
           /\ ret' = IF r.err = "ok" THEN <<r.val>> ELSE <<>>
    /\ UNCHANGED <<a, b, self, hist, env, ringVars>>

NextLucas == IsPrimeLucas

SpecLucas == LucasInit /\ [][NextLucas]_vars

----------------------------------------------------------------------------
(* The loop of sqrtm (Tonelli-Shanks), one pass at a time.  l is the loop  *)
(* state [y, bb, g, k]; a pass computes the order exponent m of bb and     *)
(* breaks (m = 0), fails the assertion (m = k), or goes on with the new    *)
(* loop state.                                                             *)

\* (mutant) k = m is left out.
sqrtmRound_keepsK(l, p) ==
    LET m == orderLoop(l.bb, 0, p)
    IN IF m = -1 THEN [st |-> Diverges, m |-> m, l |-> l]
       ELSE IF m = 0 THEN [st |-> "break", m |-> m, l |-> l]
       ELSE IF m = l.k THEN [st |-> AssertionFailed, m |-> m, l |-> l]
       ELSE LET t == powm(l.g, JsShl(1, l.k - m - 1), p).val
                g1 == JsRem(JsPow(t, 2), p)
            IN [st |-> "next", m |-> m,
                l |-> [y |-> JsRem(l.y * t, p), bb |-> JsRem(l.bb * g1, p),
                       g |-> g1, k |-> l.k]]

sqrtmRound(l, p) ==
    LET m == orderLoop(l.bb, 0, p)
    IN IF m = -1 THEN [st |-> Diverges, m |-> m, l |-> l]
       ELSE IF m = 0 THEN [st |-> "break", m |-> m, l |-> l]
       ELSE IF m = l.k THEN [st |-> AssertionFailed, m |-> m, l |-> l]
       ELSE LET t == powm(l.g, JsShl(1, l.k - m - 1), p).val
                g1 == JsRem(JsPow(t, 2), p)
            IN [st |-> "next", m |-> m,
                l |-> [y |-> JsRem(l.y * t, p), bb |-> JsRem(l.bb * g1, p),
                       g |-> g1, k |-> m]]

\* sqrtm from its general case up to the loop, for 0 <= x < p: the loop
\* state it enters with.
sqrtmEnter(x, p) ==
    LET e == zeroBits(p - 1)
        s == JsShr(p - 1, e)
        n == nonResidueFrom(2, p)
    IN [y |-> powm(x, JsShr(s + 1, 1), p).val, bb |-> powm(x, s, p).val,
        g |-> powm(n, s, p).val, k |-> e]

----------------------------------------------------------------------------
(* SpecTonelli: sqrtm(x, p) with x = a and p = b, a prime that is 1 modulo *)
(* 8, and x a square modulo p; the call is followed through the passes of  *)
(* its loop.  env is the loop state, hist the [k, m] of the passes made.   *)

TonelliPrimes == {17, 41, 73, 97, 113, 193, 257}
\* x ranges from TonelliMargin below 0 to TonelliMargin above p.
TonelliMargin == 2

TonelliInit ==
    /\ b \in TonelliPrimes
    /\ a \in {x \in (-TonelliMargin)..(b + TonelliMargin) :
                  jacobi(x, b) = Ok(1)}
    /\ self = a
    /\ op = "init"
    /\ ret = <<>>
    /\ err = "ok"
    /\ hist = <<>>
    /\ env = <<>>
    /\ RingInit

\* sqrtm up to its loop.
SqrtmEnter ==
    /\ op = "init"
    /\ op' = "loop"
    /\ env' = sqrtmEnter(IF a < 0 \/ a >= b THEN mod(a, b) ELSE a, b)
    /\ UNCHANGED <<a, b, self, ret, err, hist, ringVars>>

\* A pass of the loop; after the break sqrtm returns y.
SqrtmRound ==
    /\ op = "loop"
    /\ \E r \in {sqrtmRound(env, b)} :
           /\ hist' = Append(hist, [k |-> env.k, m |-> r.m])
           /\ env' = r.l
           /\ op' = IF r.st = "next" THEN "loop" ELSE "sqrtm"
           /\ err' = IF r.st \in {"next", "break"} THEN "ok" ELSE r.st
           /\ ret' = IF r.st = "break" THEN <<r.l.y>> ELSE <<>>
    /\ UNCHANGED <<a, b, self, ringVars>>

NextTonelli ==
    \/ SqrtmEnter
    \/ SqrtmRound

SpecTonelli == TonelliInit /\ [][NextTonelli]_vars

----------------------------------------------------------------------------
(* HashDRBG (hash-drbg.js).  A Buffer is the sequence of its bytes; null   *)
(* is the empty sequence, which every method treats as it treats null.     *)
(* The hash alg is handed to the constructor: [id, size], with             *)
(* alg.digest(data) = Digest(alg, data) and alg.multi(x, y, z) the digest  *)
(* of x, y and z put together.  The instance is d = [alg, V, C, rounds];   *)
(* a method yields [err, V, C, rounds, out].                               *)

\* generate refuses rounds > RESEED_INTERVAL.  The source has 2^48, which
\* no run of the model reaches; the model counts to a small number instead.
RESEED_INTERVAL == 1

NotEnoughEntropy == "Not enough entropy."
NotInitialized == "DRBG not initialized."
ReseedRequired == "Reseed is required."

\* The hash handed in: a value made of the length of the data and of its
\* first, sixth, middle and last bytes, spread over size bytes.
DigestOf(data) ==
    IF data = <<>> THEN 0
    ELSE (Len(data) + 3 * data[1] + 5 * data[Len(data)]
          + 7 * data[(Len(data) + 1) \div 2]
          + 11 * data[IF Len(data) >= 6 THEN 6 ELSE 1]) % 251

Digest(alg, data) ==
    CHOOSE o \in {[i \in 1..alg.size |-> (h + 7 * i) % 256] :
                  h \in {DigestOf(data)}} : TRUE

Multi(alg, x, y, z) == Digest(alg, x \o y \o z)

minEntropy(alg) == IF alg.id = "SHA1" THEN 10 ELSE 24
seedLen(alg) == IF alg.size <= 32 THEN 55 ELSE 111

\* concat(a, b, c)
concat(x, y, z) == x \o y \o z

\* The two loops of sum for one buf: buf is added to the last bytes of dst,
\* from the last byte on, with a carry that is 0 or 1, and the carry left
\* is added to the bytes before them.  The carry into byte i is 1 when a
\* byte behind it has overflowed and every byte between is 255.
sumBuf(dst, buf) ==
    LET n == Len(dst)
        at(i) == dst[i] + (IF i > n - Len(buf) THEN buf[i - (n - Len(buf))]
                           ELSE 0)
        carry(i) == IF \E j \in (i + 1)..n :
                           /\ at(j) >= 256
                           /\ \A l \in (i + 1)..(j - 1) : at(l) = 255
                    THEN 1 ELSE 0
    IN [i \in 1..n |-> (at(i) + carry(i)) % 256]

\* sum(dst, ...args), no buf longer than dst.
RECURSIVE HashDRBG_sum(_, _)
HashDRBG_sum(dst, args) ==
    IF args = <<>> THEN dst
    ELSE CHOOSE o \in
             {HashDRBG_sum(d, Tail(args)) :
              d \in {sumBuf(dst, Head(args))}} : TRUE

\* The loop of hashdf: data[0] += 1 after each digest.
RECURSIVE hashdfLoop(_, _, _, _, _)
hashdfLoop(alg, data, i, rounds, out) ==
    IF i < rounds
    THEN CHOOSE o \in
             {hashdfLoop(alg, [data EXCEPT ![1] = (data[1] + 1) % 256],
                         i + 1, rounds, out1) :
              out1 \in {out \o Digest(alg, data)}} : TRUE
    ELSE out

\* hashdf(input, len, prepend); prepend is -1 for null.
hashdf(alg, input, len, prepend) ==
    LET data == <<1, (len \div 2097152) % 256, (len \div 8192) % 256,
                  (len \div 32) % 256, ((len % 32) * 8) % 256>>
                \o (IF prepend # -1 THEN <<prepend>> ELSE <<>>) \o input
        rounds == (len + alg.size - 1) \div alg.size
    IN SubSeq(hashdfLoop(alg, data, 0, rounds, <<>>), 1, len)

\* The loop of hashgen: sum(data, ONE) after each digest.
RECURSIVE hashgenLoop(_, _, _, _, _)
hashgenLoop(alg, data, i, rounds, out) ==
    IF i < rounds
    THEN CHOOSE o \in
             {hashgenLoop(alg, s[1], i + 1, rounds, s[2]) :
              s \in {<<HashDRBG_sum(data, <<<<1>>>>),
                       out \o Digest(alg, data)>>}} : TRUE
    ELSE out

hashgen(alg, V, len) ==
    SubSeq(hashgenLoop(alg, V, 0, (len + alg.size - 1) \div alg.size, <<>>),
           1, len)

DrbgThrows(d, msg) ==
    [err |-> msg, V |-> d.V, C |-> d.C, rounds |-> d.rounds, out |-> <<>>]

\* V and C are assigned, and rounds = 1.
DrbgSeeded(alg, V) ==
    [err |-> "ok", V |-> V, C |-> hashdf(alg, V, seedLen(alg), 0),
     rounds |-> 1, out |-> <<>>]

HashDRBG_init(d, entropy, nonce, pers) ==
    LET seed == concat(entropy, nonce, pers)
    IN IF Len(seed) < minEntropy(d.alg) THEN DrbgThrows(d, NotEnoughEntropy)
       ELSE CHOOSE o \in {DrbgSeeded(d.alg, V) :
                          V \in {hashdf(d.alg, seed, seedLen(d.alg), -1)}} :
                TRUE

HashDRBG_reseed(d, entropy, add) ==
    LET seed == concat(d.V, entropy, add)
    IN IF Len(seed) < minEntropy(d.alg) THEN DrbgThrows(d, NotEnoughEntropy)
       ELSE CHOOSE o \in {DrbgSeeded(d.alg, V) :
                          V \in {hashdf(d.alg, seed, seedLen(d.alg), 1)}} :
                TRUE

\* this.len after the two writeUInt32BE of generate (rounds is below 2^31
\* in the model, so that its upper word is 0 and rounds >>> 0 is rounds).
lenBuffer(rounds) ==
    <<0, 0, 0, 0, (rounds \div 16777216) % 256, (rounds \div 65536) % 256,
      (rounds \div 256) % 256, rounds % 256>>

\* generate behind its checks, V1 being V after the sum with add.
generateFrom(d, V1, len, count) ==
    [err |-> "ok",
     V |-> HashDRBG_sum(V1, <<Multi(d.alg, <<3>>, V1, <<>>), d.C,
                     lenBuffer(d.rounds)>>),
     C |-> d.C,
     rounds |-> d.rounds + count,
     out |-> hashgen(d.alg, V1, len)]

\* (mutant) rounds is not counted.
HashDRBG_generate_uncounted(d, len, add) ==
    IF d.rounds = 0 THEN DrbgThrows(d, NotInitialized)
    ELSE IF d.rounds > RESEED_INTERVAL THEN DrbgThrows(d, ReseedRequired)
    ELSE CHOOSE o \in
             {generateFrom(d, V1, len, 0) :
              V1 \in {IF Len(add) # 0
                      THEN HashDRBG_sum(d.V,
                                        <<Multi(d.alg, <<2>>, d.V, add)>>)
                      ELSE d.V}} : TRUE

HashDRBG_generate(d, len, add) ==
    IF d.rounds = 0 THEN DrbgThrows(d, NotInitialized)
    ELSE IF d.rounds > RESEED_INTERVAL THEN DrbgThrows(d, ReseedRequired)
    ELSE CHOOSE o \in
             {generateFrom(d, V1, len, 1) :
              V1 \in {IF Len(add) # 0
                      THEN HashDRBG_sum(d.V,
                                        <<Multi(d.alg, <<2>>, d.V, add)>>)
                      ELSE d.V}} : TRUE

HashDRBG_randomBytes(d, size) == HashDRBG_generate(d, size, <<>>)

----------------------------------------------------------------------------
(* SpecDrbg: d = new HashDRBG(alg), and then init, reseed, generate and    *)
(* randomBytes in any order.  env holds the instance (alg, V, C, rounds),  *)
(* the number of calls made, V, C and rounds as they were before the last  *)
(* call (was), the len of the last generate, and whether an init and       *)
(* whether an init or a reseed has succeeded.  The constructor allocates   *)
(* V and C with allocUnsafe: their bytes are whatever the memory held.     *)

\* Calls made on the instance.
MaxDrbgCalls == 4

Algs == {[id |-> "SHA1", size |-> 20], [id |-> "SHA512", size |-> 64]}

\* A Buffer of n bytes f.
Filled(n, f) == [i \in 1..n |-> f]

\* What the memory of a new Buffer holds.
Garbage == {0, 255}

\* <<entropy, nonce>> handed to init, <<entropy, add>> handed to reseed,
\* <<len, add>> handed to generate.
InitInputs ==
    {<<<<>>, <<>>>>, <<Filled(9, 1), <<>>>>, <<Filled(9, 1), Filled(16, 3)>>,
     <<Filled(32, 7), <<>>>>}
ReseedInputs == {<<<<>>, <<>>>>, <<Filled(32, 7), Filled(8, 5)>>}
GenerateInputs == {<<0, <<>>>>, <<33, <<>>>>, <<33, Filled(8, 5)>>}

DrbgInit ==
    /\ \E alg \in Algs, f \in Garbage :
           env = [alg |-> alg, V |-> Filled(seedLen(alg), f),
                  C |-> Filled(seedLen(alg), f), rounds |-> 0, calls |-> 0,
                  was |-> <<>>, len |-> 0,
                  inited |-> FALSE, seeded |-> FALSE]
    /\ a = 0 /\ b = 0 /\ self = 0
    /\ op = "new"
    /\ ret = <<>>
    /\ err = "ok"
    /\ hist = <<>>
    /\ RingInit

\* d.name(...), r being what the method yields.
DrbgCall(name, len, r) ==
    /\ op' = name
    /\ err' = r.err
    /\ ret' = IF r.err = "ok" /\ name \in {"generate", "randomBytes"}
              THEN <<r.out>> ELSE <<>>
    /\ env' = [env EXCEPT
                   !.V = r.V, !.C = r.C, !.rounds = r.rounds,
                   !.calls = env.calls + 1,
                   !.was = [V |-> env.V, C |-> env.C, rounds |-> env.rounds],
                   !.len = len,
                   !.inited = env.inited \/ (name = "init" /\ r.err = "ok"),
                   !.seeded = env.seeded
                              \/ (name \in {"init", "reseed"}
                                  /\ r.err = "ok")]
    /\ UNCHANGED <<a, b, self, hist, ringVars>>

DrbgInitCall ==
    /\ env.calls < MaxDrbgCalls
    /\ \E i \in InitInputs :
           \E r \in {HashDRBG_init(env, i[1], i[2], <<>>)} :
               DrbgCall("init", 0, r)

DrbgReseed ==
    /\ env.calls < MaxDrbgCalls
    /\ \E i \in ReseedInputs :
           \E r \in {HashDRBG_reseed(env, i[1], i[2])} :
               DrbgCall("reseed", 0, r)

DrbgGenerate ==
    /\ env.calls < MaxDrbgCalls
    /\ \E i \in GenerateInputs :
           \E r \in {HashDRBG_generate(env, i[1], i[2])} :
               DrbgCall("generate", i[1], r)

DrbgRandomBytes ==
    /\ env.calls < MaxDrbgCalls
    /\ \E r \in {HashDRBG_randomBytes(env, 1)} :
           DrbgCall("randomBytes", 1, r)

NextDrbg ==
    \/ DrbgInitCall
    \/ DrbgReseed
    \/ DrbgGenerate
    \/ DrbgRandomBytes

SpecDrbg == DrbgInit /\ [][NextDrbg]_vars

----------------------------------------------------------------------------
(* Properties of the reduction context.  In a step, res' names the call    *)
(* made, and bn the objects it was made on.                                *)

RingBinaryMethods ==
    {"redAdd", "redIAdd", "redSub", "redISub", "redMul", "redIMul"}

RedMethods ==
    RingBinaryMethods \cup
    {"redIShln", "redShln", "redISqr", "redSqr", "redISqrt", "redSqrt",
     "redIInvert", "redInvert", "redIFermat", "redFermat", "redINeg",
     "redNeg", "redLegendre", "redJacobi", "redKronecker", "redIPow",
     "redPow", "redIPown", "redPown"}

\* C1: redAdd, redIAdd, redSub, redISub, redMul and redIMul succeed only
\* when receiver and operand carry the identical Red instance: they fail
\* when the two are tagged with distinct instances, whatever the moduli and
\* also for two instances built from the same catalogue name, and when the
\* operand is untagged.
RingBinaryNeedsSameInstance ==
    [][res'.op \in RingBinaryMethods /\ res'.err = "ok"
       => bn[res'.s].red # 0 /\ bn[res'.t].red = bn[res'.s].red]_vars

\* C1 witness: a binary ring method has failed between two values tagged
\* with two instances built from the same catalogue name.
DistinctInstancesSameNameCase ==
    /\ res.op \in RingBinaryMethods
    /\ res.err = RedMsg
    /\ bn[res.s].red # 0 /\ bn[res.t].red # 0
    /\ bn[res.s].red # bn[res.t].red
    /\ ctxs[bn[res.s].red].name = "p25519"
    /\ ctxs[bn[res.t].red].name = "p25519"

\* C2: toRed and forceRed fail on a value that is tagged, fromRed fails on
\* a value that is not, every red* method fails on an untagged receiver,
\* and a call that fails so leaves every value and tag as it was.
TagLifecycle ==
    [][/\ res'.op \in {"toRed", "forceRed"} /\ bn[res'.s].red # 0
          => res'.err # "ok" /\ bn' = bn
       /\ res'.op = "fromRed" /\ bn[res'.s].red = 0
          => res'.err # "ok" /\ bn' = bn
       /\ res'.op \in RedMethods /\ bn[res'.s].red = 0
          => res'.err # "ok" /\ bn' = bn]_vars

\* C2 witness: toRed has failed on a tagged value.
RetagCase ==
    /\ res.op = "toRed"
    /\ res.err = AlreadyRed
    /\ bn[res.s].red # 0

RawMethods ==
    {"iadd", "add", "isub", "imul", "imod", "iinvert", "ipowm", "isqrtm"}

CanonicalResidue ==
    \A s \in Slots :
        bn[s].red # 0 => bn[s].n >= 0 /\ bn[s].n < M(bn[s].red)

----------------------------------------------------------------------------
(* Properties of the integer core.                                         *)

EuclideanDivMethods == {"div", "idiv", "divn", "idivn"}
EuclideanModMethods == {"mod", "imod", "modn", "imodn", "modrn"}
DivisionMethods ==
    {"quorem", "iquo", "iquon", "quo", "quon", "irem", "iremn", "rem", "remn",
     "remrn", "divmod", "divRound"} \cup EuclideanDivMethods \cup EuclideanModMethods
PowMethods == {"pow", "ipow", "pown", "ipown"}

\* C5: for every a and every b > 0, divmod returns (q, r) with a = q*b + r
\* and 0 <= r < b; div returns that q and mod returns that r (the pair is
\* unique, so the three agree).
EuclideanDivisionLaw ==
    (err = "ok" /\ b > 0) =>
        /\ op = "divmod" => /\ ret[1] * b + ret[2] = a
                            /\ ret[2] \in 0..(b - 1)
        /\ op \in EuclideanDivMethods => (a - ret[1] * b) \in 0..(b - 1)
        /\ op \in EuclideanModMethods => /\ ret[1] \in 0..(b - 1)
                                         /\ (a - ret[1]) % b = 0

\* C5 witness: a negative dividend whose truncated remainder had to be
\* corrected.
EuclideanDivisionCase ==
    op = "divmod" /\ err = "ok" /\ a < 0 /\ b > 1 /\ ret[2] > 0

\* C6: every method of the division families throws "Cannot divide by
\* zero." on a zero divisor, and the receiver keeps its value.
DivisionByZeroThrows ==
    (op \in DivisionMethods /\ b = 0) =>
        /\ err = DivideByZero
        /\ ret = <<>>
        /\ self = a

\* C6 witness: an in-place small-integer form called with 0 on a nonzero
\* receiver.
DivisionByZeroCase ==
    op = "imodn" /\ b = 0 /\ a # 0 /\ err = DivideByZero

\* q is the integer nearest to x/y, an exact half going away from zero.
NearestAwayFromZero(x, y, q) ==
    LET d == abs(x - q * y)
    IN \/ 2 * d < abs(y)
       \/ 2 * d = abs(y) /\ abs(q * y) > abs(x)

\* C7: divRound(x, y), y # 0, returns the integer nearest to x/y, exact
\* halves rounded away from zero.
DivRoundNearest ==
    (op = "divRound" /\ b # 0) =>
        /\ err = "ok"
        /\ NearestAwayFromZero(a, b, ret[1])

\* C7 witness: an exact half with both operands negative.
DivRoundTieCase ==
    /\ op = "divRound" /\ err = "ok"
    /\ a < 0 /\ b < 0
    /\ 2 * abs(a - ret[1] * b) = abs(b)

\* x multiplied by itself k times.
RECURSIVE Power(_, _)
Power(x, k) == IF k = 0 THEN 1 ELSE x * Power(x, k - 1)

\* C8 as stated: pow, ipow, pown and ipown fail on a negative exponent.
NegativeExponentRejected ==
    (op \in PowMethods /\ b < 0) => err # "ok"

\* C8 as amended: pow, ipow, pown and ipown do not fail on a negative
\* exponent e; they return the receiver raised to |e|.
NegativeExponentIsAbsolute ==
    (op \in PowMethods /\ b < 0) =>
        /\ err = "ok"
        /\ ret = <<Power(a, -b)>>

\* C8 witness: a negative exponent on a base other than 0, 1, -1.
NegativeExponentCase ==
    op = "ipow" /\ b < -1 /\ abs(a) > 1 /\ err = "ok"

\* Bit i of a non-negative integer, and the magnitude operations stated
\* bit by bit.
Bit(x, i) == (x \div (2 ^ i)) % 2
MagBits == 0..(MaxNum + 1)
MagAnd(x, y) == LET f[i \in MagBits] == Bit(x, i) * Bit(y, i) * (2 ^ i)
                    sum[i \in MagBits] == f[i] + (IF i = 0 THEN 0 ELSE sum[i - 1])
                IN sum[MaxNum + 1]
MagOr(x, y) == x + y - MagAnd(x, y)
MagXor(x, y) == x + y - 2 * MagAnd(x, y)
sgn(x) == IF x < 0 THEN -1 ELSE 1

\* C9: uand, uor, uxor (in-place and value-returning) yield
\* sign(x) * (|x| op |y|), and ushr yields sign(x) * (|x| >> k), k >= 0.
UnsignedBitwiseOnMagnitude ==
    err = "ok" =>
        /\ op \in {"iuand", "uand"} => ret[1] = sgn(a) * MagAnd(abs(a), abs(b))
        /\ op \in {"iuor", "uor"} => ret[1] = sgn(a) * MagOr(abs(a), abs(b))
        /\ op \in {"iuxor", "uxor"} => ret[1] = sgn(a) * MagXor(abs(a), abs(b))
        /\ (op \in {"iushr", "ushr"} /\ b >= 0) =>
               ret[1] = sgn(a) * (abs(a) \div (2 ^ b))

\* The widths a value fits: -2^(w-1) <= x < 2^(w-1).
Fits(x, w) == w >= 1 /\ -(2 ^ (w - 1)) <= x /\ x < 2 ^ (w - 1)

Called(i, name) == Len(hist) >= i /\ hist[i][1] = name

\* C10: for w >= 1 and a fitting w, toTwos(a, w) is in [0, 2^w),
\* fromTwos(toTwos(a, w), w) = a and a further toTwos gives toTwos(a, w)
\* again; fromTwos with w <= 0 fails.
TwosRoundTrip ==
    /\ (Fits(a, b) /\ Called(1, "toTwos")) => hist[1][2] \in 0..(2 ^ b - 1)
    /\ (Fits(a, b) /\ Called(1, "toTwos") /\ Called(2, "fromTwos")) =>
           hist[2][2] = a
    /\ (Fits(a, b) /\ Called(1, "toTwos") /\ Called(2, "fromTwos")
           /\ Called(3, "toTwos")) => hist[3][2] = hist[1][2]
    /\ (op = "fromTwos" /\ b <= 0) => err # "ok"

\* C10 witness: the round trip of a negative value at the smallest width
\* that holds it.
TwosRoundTripCase ==
    /\ a < -1 /\ Fits(a, b) /\ ~Fits(a, b - 1)
    /\ Called(1, "toTwos") /\ Called(2, "fromTwos") /\ Called(3, "toTwos")

----------------------------------------------------------------------------
(* Properties of the conversions.                                          *)

\* |x| < 256^n, for the values of the model (all below 256^4).
FitsIn(x, n) == n >= 4 \/ abs(x) < 256 ^ n

\* C11: for either endianness and every length n >= 1, toBuffer(x, e, n)
\* succeeds exactly when |x| < 256^n; it then returns exactly n bytes, and
\* fromBuffer of them with the same endianness is |x|; when |x| does not
\* fit in n bytes toBuffer fails with the length error.
ByteRoundTrip ==
    /\ (op = "toBuffer" /\ b >= 1) =>
           /\ (err = "ok") <=> FitsIn(a, b)
           /\ err = "ok" => Len(ret[1]) = b
           /\ err # "ok" => err = LengthMsg
    /\ (op = "fromBuffer" /\ b >= 1) =>
           /\ err = "ok"
           /\ ret = <<abs(a)>>

\* A negative three-byte value, written little-endian into nine bytes and
\* read back from an unaligned buffer as one 64-bit word and the rest.
ByteRoundTripCase ==
    /\ op = "fromBuffer"
    /\ a = -65536
    /\ b = 9
    /\ hist = <<"le">>
    /\ env.ENDIAN = "le"
    /\ env.offset = 3
    /\ ret = <<65536>>

----------------------------------------------------------------------------
(* Properties of the number-theory layer.  The arithmetic the claims are   *)
(* stated in is defined here from first principles.                        *)

Divides(d, n) == n % d = 0

IsPrime(n) == n >= 2 /\ \A d \in 2..(n - 1) : ~Divides(d, n)

OddPrime(n) == n >= 3 /\ IsPrime(n)

\* The non-negative greatest common divisor of |x| and |y| (0 for 0, 0).
GCD(x, y) ==
    IF x = 0 /\ y = 0 THEN 0
    ELSE CHOOSE g \in 1..(abs(x) + abs(y)) :
             /\ Divides(g, abs(x)) /\ Divides(g, abs(y))
             /\ \A h \in (g + 1)..(abs(x) + abs(y)) :
                    ~(Divides(h, abs(x)) /\ Divides(h, abs(y)))

\* x^e mod m by repeated multiplication, e >= 0, m >= 1.
RECURSIVE PowMod(_, _, _)
PowMod(x, e, m) == IF e = 0 THEN 1 % m ELSE ((x % m) * PowMod(x, e - 1, m)) % m

\* The quadratic-residue symbol of x modulo the odd prime p.
ResidueSymbol(x, p) ==
    IF Divides(p, x) THEN 0
    ELSE IF \E z \in 1..(p - 1) : (z * z - x) % p = 0 THEN 1
    ELSE -1

\* C12: for every a and every m >= 2 with gcd(a, m) = 1 invert(a, m) is r
\* with 0 <= r < m and a*r mod m = 1; invert fails with 'not invertible'
\* when gcd(a, m) # 1, and for every a when m = 1.
ModularInverse ==
    (op = "iinvert" /\ b >= 1) =>
        IF b >= 2 /\ GCD(a, b) = 1
        THEN /\ err = "ok"
             /\ ret[1] \in 0..(b - 1)
             /\ (a * ret[1]) % b = 1
             /\ self = ret[1]
        ELSE /\ err = NotInvertible
             /\ self = a

\* A negative receiver larger in magnitude than the modulus is inverted.
ModularInverseCase ==
    /\ op = "iinvert"
    /\ a = -19
    /\ b = 7
    /\ ret = <<4>>

\* C13: for every prime p, p = 2 included, and every a, fermat(a, p) either
\* returns r = a^(p-2) mod p with a*r mod p = 1 or fails with 'not
\* invertible'; it fails exactly when a is congruent to 0 modulo p.
FermatInverse ==
    (op = "ifermat" /\ IsPrime(b)) =>
        IF Divides(b, a)
        THEN /\ err = NotInvertible
             /\ self = a
        ELSE /\ err = "ok"
             /\ ret = <<PowMod(a, b - 2, b)>>
             /\ (a * ret[1]) % b = 1
             /\ self = ret[1]

\* C14: for all a and b of any signs, zero included, egcd(a, b) returns
\* (x, y, g) with a*x + b*y = g, g >= 0 and g the non-negative greatest
\* common divisor of |a| and |b|.
ExtendedGcd ==
    (op = "egcd") =>
        /\ err = "ok"
        /\ Len(ret) = 3
        /\ a * ret[1] + b * ret[2] = ret[3]
        /\ ret[3] >= 0
        /\ ret[3] = GCD(a, b)
        /\ ret[3] = gcd(a, b)

\* Both arguments negative, neither dividing the other.
ExtendedGcdCase ==
    /\ op = "egcd"
    /\ a = -14
    /\ b = -4
    /\ ret[3] = 2
    /\ -14 * ret[1] - 4 * ret[2] = 2

\* C15: for every odd prime p and every a, negative or >= p included,
\* jacobi(a, p) and legendre(a, p) are 0 when p divides a, 1 when a is a
\* nonzero square modulo p and -1 otherwise (jacobi(30, 59) = -1); jacobi
\* fails when its second argument is even or zero.
ResidueSymbols ==
    /\ (op \in {"jacobi", "legendre"} /\ OddPrime(b)) =>
           /\ err = "ok"
           /\ ret = <<ResidueSymbol(a, b)>>
    /\ (op = "jacobi" /\ Divides(2, b)) =>
           /\ err = MustBeOdd
           /\ ret = <<>>
    /\ jacobi(30, 59) = Ok(-1)

\* The textbook vector.
ResidueSymbolsCase ==
    /\ op = "jacobi"
    /\ a = 30
    /\ b = 59
    /\ ret = <<-1>>

\* C16: kronecker(a, b) = jacobi(a, b) for every a of any sign, 0 included,
\* and every odd positive b, prime or composite, 1 included.
KroneckerIsJacobi ==
    (op = "kronecker" /\ b > 0 /\ ~Divides(2, b)) =>
        /\ err = "ok"
        /\ Ok(ret[1]) = jacobi(a, b)

\* A negative even receiver and a composite odd modulus.
KroneckerIsJacobiCase ==
    /\ op = "kronecker"
    /\ a = -8
    /\ b = 15
    /\ ret = <<-1>>

\* C17: for every odd prime p (3 mod 4, 5 mod 8 and 1 mod 8) and every x:
\* if jacobi(x, p) = 1, sqrtm(x, p) is r with 0 <= r < p and r^2 mod p =
\* x mod p; if jacobi(x, p) = 0 it is 0; if jacobi(x, p) = -1 it fails with
\* 'not a square mod p'.
ModularSquareRoot ==
    (op = "isqrtm" /\ OddPrime(b)) =>
        LET j == jacobi(a, b).val
        IN /\ j = 1 =>
                  /\ err = "ok"
                  /\ ret[1] \in 0..(b - 1)
                  /\ (ret[1] * ret[1]) % b = a % b
                  /\ self = ret[1]
           /\ j = 0 => err = "ok" /\ ret = <<0>> /\ self = 0
           /\ j = -1 => err = NotSquare /\ self = a

\* The Tonelli-Shanks branch on a negative x: 41 = 1 modulo 8, and
\* -18 = 23 = 8^2 modulo 41.
ModularSquareRootCase ==
    /\ op = "isqrtm"
    /\ a = -18
    /\ b = 41
    /\ err = "ok"
    /\ ret[1] \in {8, 33}

\* C18: for distinct odd primes p and q and every x that is a nonzero
\* square modulo both, sqrtpq(x, p, q) is r with 0 <= r < p*q and r^2 mod
\* p*q = x mod p*q, r being the combination by the Chinese remainder
\* theorem of sqrtm(x, p) and sqrtm(x, q).
SquareRootModuloProduct ==
    (/\ op = "isqrtpq"
     /\ OddPrime(b) /\ OddPrime(env[1]) /\ b # env[1]
     /\ ResidueSymbol(a, b) = 1 /\ ResidueSymbol(a, env[1]) = 1) =>
        /\ err = "ok"
        /\ ret[1] \in 0..(b * env[1] - 1)
        /\ (ret[1] * ret[1]) % (b * env[1]) = a % (b * env[1])
        /\ ret[1] % b = sqrtm(a, b).val
        /\ ret[1] % env[1] = sqrtm(a, env[1]).val
        /\ self = ret[1]

\* A negative x, a modulus 1 mod 8 and a modulus 3 mod 4:
\* -19 = 15 = 7^2 modulo 17 and -19 = 2 = 3^2 modulo 7.
SquareRootModuloProductCase ==
    /\ op = "isqrtpq"
    /\ a = -19
    /\ b = 17
    /\ env = <<7>>
    /\ err = "ok"
    /\ (ret[1] * ret[1]) % 119 = 100

\* C19: for every n of the range (n <= 1, even n, squares and the
\* Carmichael number 561 included), every reps >= 0 and every sequence of
\* numbers returned by the RNG, isPrime(n, rng, reps, 0) returns true if
\* and only if n is prime.
PrimalityDecided ==
    (op = "isPrime" /\ b >= 0) =>
        /\ err = "ok"
        /\ ret = <<IsPrime(a)>>

\* 561 passes a pass of the loop with a random base and is then refused.
PrimalityDecidedCase ==
    /\ op = "isPrime"
    /\ a = 561
    /\ Len(hist) >= 2
    /\ ret = <<FALSE>>

----------------------------------------------------------------------------
(* Properties of the prime catalogue.  In a step, res' names the lookup    *)
(* made: res'.val[1] is the name, res'.val[2] the value _prime returned.   *)

\* C20: over any sequence of _prime(name) and Red(name) calls, the first
\* lookup of a catalogue name populates its entry, every later lookup of
\* the name returns the identical entry, populated entries are never
\* replaced, removed or mutated, and a lookup of any name outside the
\* catalogue fails and adds nothing to the table.
CatalogueMemoized ==
    [][(res'.op \in {"_prime", "red"} /\ res'.val # <<>>) =>
          /\ \A k \in PrimeNames : primes[k] # 0 => primes'[k] = primes[k]
          /\ \A k \in PrimeNames \ {res'.val[1]} : primes'[k] = primes[k]
          /\ res'.val[1] \in PrimeNames =>
                 /\ res'.err = "ok"
                 /\ primes'[res'.val[1]] # 0
                 /\ res'.op = "_prime" =>
                        res'.val[2] = primes'[res'.val[1]]
          /\ res'.val[1] \notin PrimeNames =>
                 /\ res'.err # "ok"
                 /\ primes' = primes]_vars

----------------------------------------------------------------------------
(* Properties of EdDSA verification.                                       *)

\* The arguments are what verify asks for: Buffers, ph null or a boolean,
\* ctx null or a Buffer of at most 255 bytes, and a pre-hash flag with
\* every context on a curve without contexts.
ValidArguments ==
    /\ \A i \in 1..Len(hist) : hist[i].buffers
    /\ env.ph \in {"null", "true", "false"}
    /\ env.ctx \in (-1)..255
    /\ env.c.context \/ env.ctx = -1 \/ env.ph # "null"

\* The item has a wrong length, an S not below n, or a part that does not
\* decode.
Malformed(c, it) ==
    \/ it.sigLen # c.fieldSize * 2
    \/ it.keyLen # c.fieldSize
    \/ it.S = -1 \/ it.S >= c.n
    \/ it.R = "throws" \/ it.A = "throws"

\* C21: with valid arguments verify returns a boolean and never throws;
\* it returns false when sig or key has a wrong length, when S >= n and
\* when anything throws inside _verify.  verifyBatch likewise never
\* throws, returns false for a batch holding such an item and true for
\* the empty batch.
VerifyFailsQuiet ==
    /\ op = "verify" /\ ValidArguments
       => /\ err = "ok"
          /\ ret \in {<<TRUE>>, <<FALSE>>}
          /\ Malformed(env.c, hist[1]) \/ hist[1].Rp = "throws"
             => ret = <<FALSE>>
    /\ op = "verifyBatch" /\ ValidArguments
       => /\ err = "ok"
          /\ ret \in {<<TRUE>>, <<FALSE>>}
          /\ (\E i \in 1..Len(hist) : Malformed(env.c, hist[i]))
             => ret = <<FALSE>>
          /\ hist = <<>> => ret = <<TRUE>>

\* C21 witness: verify has returned false for a signature of the right
\* lengths whose point R does not decode.
VerifyCaughtCase ==
    /\ op = "verify"
    /\ ValidArguments
    /\ hist[1].sigLen = env.c.fieldSize * 2
    /\ hist[1].keyLen = env.c.fieldSize
    /\ hist[1].R = "throws"
    /\ ret = <<FALSE>>

----------------------------------------------------------------------------
(* Properties of the scalar arithmetic.                                    *)

\* The integer a scalar stands for: its bytes, least significant first.
RECURSIVE LittleEndian(_)
LittleEndian(bytes) ==
    IF bytes = <<>> THEN 0 ELSE bytes[1] + 256 * LittleEndian(Tail(bytes))

\* The run was hist[1] with the tweak, then hist[2] with what by names,
\* and neither call threw.
TweakedAndBack(name, by) ==
    /\ Len(hist) = 2
    /\ hist[1].op = name /\ hist[1].by = "tweak" /\ hist[1].err = "ok"
    /\ hist[2].op = name /\ hist[2].by = by /\ hist[2].err = "ok"

\* C22: with no result 0 modulo n (no call throws),
\* scalarTweakAdd(scalarTweakAdd(s, t), scalarNegate(t)) and
\* scalarTweakMul(scalarTweakMul(s, t), scalarInvert(t)) are
\* scalarReduce(s), the scalar of s mod n; and scalarTweakAdd and
\* scalarTweakMul throw 'Invalid scalar.' when their result is 0 modulo n.
ScalarTweakRoundTrip ==
    /\ TweakedAndBack("scalarTweakAdd", "neg")
       \/ TweakedAndBack("scalarTweakMul", "inv")
       => /\ env.x = scalarReduce(env.c, env.scalar).val
          /\ Len(env.x) = env.c.scalarSize
          /\ LittleEndian(env.x) = LittleEndian(env.scalar) % env.c.n
    /\ \A i \in 1..Len(hist) :
           /\ hist[i].op = "scalarTweakAdd"
              /\ (LittleEndian(hist[i].x) + LittleEndian(hist[i].y))
                     % env.c.n = 0
              => hist[i].err = InvalidScalar
           /\ hist[i].op = "scalarTweakMul"
              /\ (LittleEndian(hist[i].x) * LittleEndian(hist[i].y))
                     % env.c.n = 0
              => hist[i].err = InvalidScalar

\* C22 witness: a scalar above n (260 + 1, n = 13) has been multiplied by
\* a tweak above n and by the inverse of the tweak.
ScalarTweakedBackCase ==
    /\ TweakedAndBack("scalarTweakMul", "inv")
    /\ env.c.n = 13
    /\ env.scalar = <<5, 1>>
    /\ env.tweak = <<14, 0>>
    /\ env.x = <<1, 0>>

----------------------------------------------------------------------------
(* Properties of the arithmetic modulo m.                                  *)

\* A residue of the context: tagged, and in [0, m).
Residue(x) == x.red = 1 /\ x.n \in 0..(M(1) - 1)

\* C23: on residues of one context, redAdd, redSub, redMul, redSqr, redNeg
\* and redShln (k >= 0) return (a+b) mod m, (a-b) mod m, (a*b) mod m,
\* a^2 mod m, (-a) mod m and (a*2^k) mod m, tagged with the context; what
\* toRed returns is a residue.
ResidueArithmetic ==
    /\ \A s \in {3, 4} : bn[s].red # 0 => Residue(bn[s])
    /\ res.op \in {"redAdd", "redSub", "redMul"}
       /\ Residue(res.x) /\ Residue(res.y)
       => /\ res.err = "ok"
          /\ Residue(bn[5])
          /\ bn[5].n = CASE res.op = "redAdd" -> (res.x.n + res.y.n) % M(1)
                         [] res.op = "redSub" -> (res.x.n - res.y.n) % M(1)
                         [] res.op = "redMul" -> (res.x.n * res.y.n) % M(1)
    /\ res.op \in {"redSqr", "redNeg", "redShln"} /\ Residue(res.x)
       => /\ res.err = "ok"
          /\ Residue(bn[5])
          /\ bn[5].n = CASE res.op = "redSqr" -> (res.x.n * res.x.n) % M(1)
                         [] res.op = "redNeg" -> (-res.x.n) % M(1)
                         [] res.op = "redShln" ->
                                (res.x.n * 2 ^ res.k) % M(1)

\* C23 witness: 4 + 3 modulo 5, which takes the correction by m.
ResidueCorrectedCase ==
    /\ res.op = "redAdd"
    /\ M(1) = 5
    /\ a = 4 /\ b = 3
    /\ res.x.n = 4 /\ res.y.n = 3
    /\ bn[5] = [n |-> 2, red |-> 1]

\* C27: toRed returns a new value, tagged and equal to x mod m, x keeping
\* its value and staying untagged, so that toRed succeeds on x again;
\* fromRed returns a new untagged value of the same integer, the receiver
\* staying tagged; and redAdd, redSub, redMul, redSqr, redNeg, redPow,
\* redInvert (and redShln) leave receiver and operand as they were.
ResidueFrame ==
    /\ res.op # "init" =>
           /\ bn[res.s] = res.x
           /\ res.t # 0 => bn[res.t] = res.y
           /\ ~res.alias
    /\ bn[1] = [n |-> a, red |-> 0]
    /\ bn[2] = [n |-> b, red |-> 0]
    /\ res.op = "toRed" =>
           /\ res.err = "ok"
           /\ bn[res.d] = [n |-> res.x.n % M(1), red |-> 1]
    /\ res.op = "fromRed" /\ res.err = "ok" =>
           /\ bn[res.s].red = 1
           /\ bn[res.d] = [n |-> res.x.n, red |-> 0]

\* C27 witness: x.toRed(ctx) is called again, rx having been used in a
\* product and converted back in between.
ToRedAgainCase ==
    /\ res.op = "toRed" /\ res.s = 1 /\ res.err = "ok"
    /\ a = 6 /\ M(1) = 5
    /\ bn[1] = [n |-> 6, red |-> 0]
    /\ bn[3] = [n |-> 1, red |-> 1]
    /\ bn[5].red = 1
    /\ bn[6] = [n |-> 1, red |-> 0]

----------------------------------------------------------------------------
(* Properties of the Miller-Rabin bases.                                   *)

\* C24 as stated: every base tested is at least 2 and at most n - 3.
BasesUpToNMinus3 ==
    \A i \in 1..Len(hist) : 2 <= hist[i] /\ hist[i] <= a - 3

\* C24, amended: for odd n >= 7 every base tested is the forced 2 of the
\* last pass or a number drawn through the RNG with 2 <= x <= n - 2,
\* whatever the RNG returns; no pass is made for another n.
BasesUpToNMinus2 ==
    /\ hist # <<>> => a >= 7 /\ a % 2 = 1
    /\ \A i \in 1..Len(hist) :
           /\ 2 <= hist[i] /\ hist[i] <= a - 2
           /\ i = b + 1 => hist[i] = 2

\* C24 witness: the base n - 2 has been drawn, the RNG having returned a
\* number that random() refused.
BaseNMinus2Case ==
    /\ a = 7
    /\ b = 2
    /\ env.again = 1
    /\ hist = <<5, 3, 2>>

----------------------------------------------------------------------------
(* Properties of the Lucas test.                                           *)

OddSquare(n) == n % 2 = 1 /\ \E r \in 1..n : r * r = n

\* No P in 3..limit has jacobi(P^2 - 4, n) = -1 or 0.
SearchExhausted(n, limit) ==
    \A P \in 3..limit : jacobi(P * P - 4, n).val \notin {-1, 0}

----------------------------------------------------------------------------
(* Properties of the Tonelli-Shanks loop.                                  *)

\* C26: for a prime p = 1 (mod 8) and x with jacobi(x, p) = 1, in every
\* pass of the loop of sqrtm the order exponent m is below k (the
\* assertion holds and the shift count k - m - 1 is not negative), k
\* decreases from pass to pass (so there are at most e + 1 passes,
\* p - 1 = 2^e * s), and the loop is left with b = 1, sqrtm returning a
\* root of x.
TonelliInvariant ==
    /\ err = "ok"
    /\ \A i \in 1..Len(hist) :
           /\ 0 <= hist[i].m /\ hist[i].m < hist[i].k
           /\ hist[i].k - hist[i].m - 1 >= 0
           /\ i > 1 => hist[i].k < hist[i - 1].k
    /\ Len(hist) <= zeroBits(b - 1) + 1
    /\ op = "sqrtm" =>
           /\ env.bb = 1
           /\ hist[Len(hist)].m = 0
           /\ ret = <<sqrtm(a, b).val>>
           /\ (ret[1] * ret[1]) % b = a % b

\* C26 witness: a root found after three passes (p - 1 = 2^8).
TonelliThreePasses ==
    /\ op = "sqrtm"
    /\ b = 257
    /\ Len(hist) >= 3
    /\ hist[1].k = 8
    /\ env.bb = 1

----------------------------------------------------------------------------
(* Properties of the termination of sqrtm.                                 *)

\* C28 as stated: x.isqrtm(p) returns or throws, whatever x and p >= 1.
SqrtmTerminates == op = "isqrtm" => err # Diverges

----------------------------------------------------------------------------
(* Properties of HashDRBG.                                                 *)

\* C29 as stated: on an instance constructed without entropy, generate
\* and randomBytes succeed only after a successful init.
GenerateOnlyAfterInit ==
    op \in {"generate", "randomBytes"} /\ err = "ok" => env.inited

====
